---- MODULE Spec2Model ----
(***************************************************************************)
(* Access control of strawberry-py: the role-level mappings, the command   *)
(* defaults and the user / channel / role overwrites (pie.acl.database),   *)
(* the resolver map_member_to_ACLevel with its ring.lru(expire=10) cache,  *)
(* the decision function acl2_function, get_true_ACLevel and               *)
(* can_invoke_command (pie/acl/__init__.py), and the administrative        *)
(* commands of modules/base/acl/module.py that write the stores.           *)
(***************************************************************************)
EXTENDS Integers, Sequences, FiniteSets, TLC

(* ---------------------------------------------------------------------- *)
(* ACLevel (pie.acl.database): an IntEnum ordered by rank.                 *)
(* ---------------------------------------------------------------------- *)
UNKNOWN == -1
EVERYONE == 0
MEMBER == 1
SUBMOD == 2
MOD == 3
ADMIN == 4
GUILD_OWNER == 5
BOT_OWNER == 6

ACLevel == {UNKNOWN, EVERYONE, MEMBER, SUBMOD, MOD, ADMIN, GUILD_OWNER, BOT_OWNER}

\* Python's None, where a level, an id or a guild is absent.
None == -2

(* ---------------------------------------------------------------------- *)
(* The directory the bot runs in: guilds, their owners, roles, channels.   *)
(* ---------------------------------------------------------------------- *)
Guilds == {1, 2}
Users == {1, 2, 3}

\* bot.owner_ids, set by update_app_info()
bot_owner_ids == {1}

\* member.guild.owner.id: user 2 owns guild 1, the bot owner owns guild 2.
guild_owner_id(g) == IF g = 1 THEN 2 ELSE 1

\* Roles of each guild, listed lowest first as the platform orders them.
GuildRoles(g) == IF g = 1 THEN <<11, 12>> ELSE <<21>>

Roles == {11, 12, 21}

GuildChannels(g) == IF g = 1 THEN {101, 102} ELSE {201}

\* Commands of the bot and the level in their acl2 decorator
\* (None: the command has no acl2 decorator).
Commands ==
    {"ping", "purge", "shutdown", "help", "acl mapping add", "acl mapping remove"}

\* get_hardcoded_ACLevel(command.callback): the level named in the
\* command's acl2 decorator.
get_hardcoded_ACLevel(command) ==
    CASE command = "ping" -> MEMBER
      [] command = "purge" -> MOD
      [] command = "shutdown" -> BOT_OWNER
      [] command = "acl mapping add" -> GUILD_OWNER
      [] command = "acl mapping remove" -> GUILD_OWNER
      [] OTHER -> None

\* Bound of the model: the rows the five tables hold together.
MaxRows == 2

\* Seconds by which one Tick advances the clock.
TickStep == 5

\* @ring.lru(expire=10)
expire == 10

VARIABLES
    mappings,      \* ACLevelMappping rows  [guild_id, role_id, level]
    defaults,      \* ACDefault rows        [guild_id, command, level]
    user_ow,       \* UserOverwrite rows    [guild_id, id, command, allow]
    channel_ow,    \* ChannelOverwrite rows [guild_id, id, command, allow]
    role_ow,       \* RoleOverwrite rows    [guild_id, id, command, allow]
    roles,         \* roles[g][u]: member.roles of user u in guild g, lowest first
    cache,         \* cache[u]: the ring.lru entry of map_member_to_ACLevel for u
    pending,       \* the commands whose handler is suspended before its body
    call,          \* the call of a function of pie.utils.text being made
    result         \* what that call returned (NoResult before it returns)

vars == <<mappings, defaults, user_ow, channel_ow, role_ow, roles, cache,
          pending, call, result>>

\* The variables outside the access control state proper.
aside == <<pending, call, result>>

stores == <<mappings, defaults, user_ow, channel_ow, role_ow>>

(* ---------------------------------------------------------------------- *)
(* pie.acl.database: get() of each table returns the row or None; the      *)
(* model returns the set of matching rows (empty for None).                *)
(* ---------------------------------------------------------------------- *)
ACLevelMappping_get(guild_id, role_id) ==
    {m \in mappings : m.guild_id = guild_id /\ m.role_id = role_id}

ACDefault_get(guild_id, command) ==
    {d \in defaults : d.guild_id = guild_id /\ d.command = command}

UserOverwrite_get(uo, guild_id, user_id, command) ==
    {o \in uo : o.guild_id = guild_id /\ o.id = user_id /\ o.command = command}

ChannelOverwrite_get(co, guild_id, channel_id, command) ==
    {o \in co : o.guild_id = guild_id /\ o.id = channel_id /\ o.command = command}

RoleOverwrite_get(ro, guild_id, role_id, command) ==
    {o \in ro : o.guild_id = guild_id /\ o.id = role_id /\ o.command = command}

\* The row a non-empty get() returned.
Row(rows) == CHOOSE r \in rows : TRUE

(* ---------------------------------------------------------------------- *)
(* map_member_to_ACLevel: the function body (what a cache miss computes).  *)
(* ---------------------------------------------------------------------- *)
\* Mutant of Reversed: member.roles is scanned front to back.
Reversed_Forward(rs) == rs

\* member.roles[::-1]
Reversed(rs) == [i \in 1..Len(rs) |-> rs[Len(rs) + 1 - i]]

\* for role in member.roles[::-1]: the level of the first role of the
\* sequence that has a mapping; EVERYONE when the loop ends without one.
RECURSIVE MappedLevel(_, _)
MappedLevel(guild_id, rs) ==
    IF rs = <<>> THEN EVERYONE
    ELSE IF ACLevelMappping_get(guild_id, Head(rs)) # {}
         THEN Row(ACLevelMappping_get(guild_id, Head(rs))).level
         ELSE MappedLevel(guild_id, Tail(rs))

\* Mutant of ComputeLevel: the guild owner is tested before the bot owner.
ComputeLevel_GuildOwnerFirst(guild_id, member_id) ==
    IF member_id = guild_owner_id(guild_id) THEN GUILD_OWNER
    ELSE IF member_id \in bot_owner_ids THEN BOT_OWNER
    ELSE MappedLevel(guild_id, Reversed(roles[guild_id][member_id]))

ComputeLevel(guild_id, member_id) ==
    IF member_id \in bot_owner_ids THEN BOT_OWNER
    ELSE IF member_id = guild_owner_id(guild_id) THEN GUILD_OWNER
    ELSE MappedLevel(guild_id, Reversed(roles[guild_id][member_id]))

(* ---------------------------------------------------------------------- *)
(* @ring.lru(expire=10): the cache is keyed by (bot, member); the bot's    *)
(* key is the constant "bot" and a member's key is its user id.  An entry  *)
(* is [level, age]: the value and the seconds since it was computed; an    *)
(* entry whose age reaches expire is removed (Aged, below).                *)
(* ---------------------------------------------------------------------- *)
NoEntry == [level |-> None, age |-> 0]

\* Mutant of CacheHit: an entry is returned only in the second it was stored.
CacheHit_SameSecond(member_id) ==
    cache[member_id].level # None /\ cache[member_id].age = 0

CacheHit(member_id) == cache[member_id].level # None

\* Mutant of map_member_to_ACLevel: a hit renews the entry's lifetime.
map_member_to_ACLevel_Renew(guild_id, member_id) ==
    IF CacheHit(member_id)
    THEN [level |-> cache[member_id].level, fresh |-> FALSE,
          cache |-> [cache EXCEPT ![member_id].age = 0]]
    ELSE [level |-> ComputeLevel(guild_id, member_id), fresh |-> TRUE,
          cache |-> [cache EXCEPT ![member_id] =
                        [level |-> ComputeLevel(guild_id, member_id), age |-> 0]]]

\* Mutant of map_member_to_ACLevel: the key is the bot alone, so the level
\* computed for one member is stored for every member.
map_member_to_ACLevel_BotKey(guild_id, member_id) ==
    IF CacheHit(member_id)
    THEN [level |-> cache[member_id].level, fresh |-> FALSE, cache |-> cache]
    ELSE [level |-> ComputeLevel(guild_id, member_id), fresh |-> TRUE,
          cache |-> [u \in Users |->
                        [level |-> ComputeLevel(guild_id, member_id), age |-> 0]]]

\* The call map_member_to_ACLevel(bot=bot, member=member) of a member of
\* guild_id: the level returned, whether the body ran, and the cache after.
map_member_to_ACLevel(guild_id, member_id) ==
    IF CacheHit(member_id)
    THEN [level |-> cache[member_id].level, fresh |-> FALSE, cache |-> cache]
    ELSE [level |-> ComputeLevel(guild_id, member_id), fresh |-> TRUE,
          cache |-> [cache EXCEPT ![member_id] =
                        [level |-> ComputeLevel(guild_id, member_id), age |-> 0]]]

(* ---------------------------------------------------------------------- *)
(* acl2_function.  Its result is the value returned (True) or the          *)
(* exception raised, with the fields the exception carries.                *)
(* ---------------------------------------------------------------------- *)
Outcome(kind, channel, role, required, actual) ==
    [kind |-> kind, channel |-> channel, role |-> role,
     required |-> required, actual |-> actual]

Allow == Outcome("True", None, None, None, None)

\* Mutant of RequiredLevel: the default is looked up by command only.
RequiredLevel_AnyGuild(level, guild_id, command) ==
    IF \E d \in defaults : d.command = command
    THEN (CHOOSE d \in defaults : d.command = command).level
    ELSE level

\* custom_level = ACDefault.get(guild.id, command); if custom_level: level = ...
RequiredLevel(level, guild_id, command) ==
    IF ACDefault_get(guild_id, command) # {}
    THEN Row(ACDefault_get(guild_id, command)).level
    ELSE level

\* for role in invoker.roles: the first role of the sequence that has an
\* overwrite for the command decides; None when the loop ends without one.
RECURSIVE RoleDecision(_, _, _, _)
RoleDecision(ro, guild_id, rs, command) ==
    IF rs = <<>> THEN None
    ELSE IF RoleOverwrite_get(ro, guild_id, Head(rs), command) # {}
         THEN Head(rs)
         ELSE RoleDecision(ro, guild_id, Tail(rs), command)

\* Mutant of LevelCheck: the comparison is strict.
LevelCheck_Strict(level, member_level) ==
    IF member_level > level
    THEN Allow
    ELSE Outcome("InsufficientACLevel", None, None, level, member_level)

\* The comparison that ends acl2_function.
LevelCheck(level, member_level) ==
    IF member_level >= level
    THEN Allow
    ELSE Outcome("InsufficientACLevel", None, None, level, member_level)

\* Mutant of RoleCheck: invoker.roles is scanned back to front.
RoleCheck_Reversed(ro, level, member_level, invoker_id, command, guild_id) ==
    LET role == RoleDecision(ro, guild_id, Reversed(roles[guild_id][invoker_id]),
                             command)
    IN  IF role # None
        THEN IF Row(RoleOverwrite_get(ro, guild_id, role, command)).allow
             THEN Allow
             ELSE Outcome("NegativeRoleOverwrite", None, role, None, None)
        ELSE LevelCheck(level, member_level)

\* The role overwrites of acl2_function, then the comparison.
RoleCheck(ro, level, member_level, invoker_id, command, guild_id) ==
    LET role == RoleDecision(ro, guild_id, roles[guild_id][invoker_id], command)
    IN  IF role # None
        THEN IF Row(RoleOverwrite_get(ro, guild_id, role, command)).allow
             THEN Allow
             ELSE Outcome("NegativeRoleOverwrite", None, role, None, None)
        ELSE LevelCheck(level, member_level)

\* Mutant of ChannelCheck: a positive channel overwrite still needs the level.
ChannelCheck_LevelToo(co, ro, level, member_level, invoker_id, command, guild_id, channel_id) ==
    IF ChannelOverwrite_get(co, guild_id, channel_id, command) # {}
    THEN IF Row(ChannelOverwrite_get(co, guild_id, channel_id, command)).allow
         THEN LevelCheck(level, member_level)
         ELSE Outcome("NegativeChannelOverwrite", channel_id, None, None, None)
    ELSE RoleCheck(ro, level, member_level, invoker_id, command, guild_id)

\* The channel overwrite of acl2_function, then the rest.
ChannelCheck(co, ro, level, member_level, invoker_id, command, guild_id, channel_id) ==
    IF ChannelOverwrite_get(co, guild_id, channel_id, command) # {}
    THEN IF Row(ChannelOverwrite_get(co, guild_id, channel_id, command)).allow
         THEN Allow
         ELSE Outcome("NegativeChannelOverwrite", channel_id, None, None, None)
    ELSE RoleCheck(ro, level, member_level, invoker_id, command, guild_id)

\* Mutant of UserCheck: the user overwrite is consulted after the channel
\* and role overwrites.
UserCheck_Last(uo, co, ro, level, member_level, invoker_id, command, guild_id, channel_id) ==
    IF \/ ChannelOverwrite_get(co, guild_id, channel_id, command) # {}
       \/ RoleDecision(ro, guild_id, roles[guild_id][invoker_id], command) # None
    THEN ChannelCheck(co, ro, level, member_level, invoker_id, command,
                      guild_id, channel_id)
    ELSE IF UserOverwrite_get(uo, guild_id, invoker_id, command) # {}
         THEN IF Row(UserOverwrite_get(uo, guild_id, invoker_id, command)).allow
              THEN Allow
              ELSE Outcome("NegativeUserOverwrite", None, None, None, None)
         ELSE LevelCheck(level, member_level)

\* The user overwrite of acl2_function, then the rest.
UserCheck(uo, co, ro, level, member_level, invoker_id, command, guild_id, channel_id) ==
    IF UserOverwrite_get(uo, guild_id, invoker_id, command) # {}
    THEN IF Row(UserOverwrite_get(uo, guild_id, invoker_id, command)).allow
         THEN Allow
         ELSE Outcome("NegativeUserOverwrite", None, None, None, None)
    ELSE ChannelCheck(co, ro, level, member_level, invoker_id, command,
                      guild_id, channel_id)

\* Mutant of Decide: the bot owner goes through the overwrites too.
Decide_NoBypass(uo, co, ro, level, member_level, invoker_id, command, guild_id, channel_id) ==
    UserCheck(uo, co, ro, RequiredLevel(level, guild_id, command),
              member_level, invoker_id, command, guild_id, channel_id)

\* acl2_function after the resolver returned member_level, on the
\* overwrite tables uo, co, ro.
Decide(uo, co, ro, level, member_level, invoker_id, command, guild_id, channel_id) ==
    IF member_level = BOT_OWNER THEN Allow
    ELSE UserCheck(uo, co, ro, RequiredLevel(level, guild_id, command),
                   member_level, invoker_id, command, guild_id, channel_id)

\* Mutant of acl2_function: a direct message is checked as EVERYONE.
acl2_function_DmAsEveryone(level, invoker_id, command, guild_id, channel_id) ==
    IF guild_id = None
    THEN [out |-> LevelCheck(level, EVERYONE), member_level |-> None,
          resolved |-> FALSE, fresh |-> FALSE, cache |-> cache]
    ELSE LET r == map_member_to_ACLevel(guild_id, invoker_id)
         IN  [out |-> Decide(user_ow, channel_ow, role_ow, level, r.level,
                             invoker_id, command, guild_id, channel_id),
              member_level |-> r.level, resolved |-> TRUE,
              fresh |-> r.fresh, cache |-> r.cache]

\* acl2_function(level, bot, invoker, command, guild, channel): the outcome,
\* the level the resolver returned (None when it was not called), whether
\* the resolver's body ran, and the cache after the call.
acl2_function(level, invoker_id, command, guild_id, channel_id) ==
    IF guild_id = None
    THEN [out |-> Allow, member_level |-> None, resolved |-> FALSE,
          fresh |-> FALSE, cache |-> cache]
    ELSE LET r == map_member_to_ACLevel(guild_id, invoker_id)
         IN  [out |-> Decide(user_ow, channel_ow, role_ow, level, r.level,
                             invoker_id, command, guild_id, channel_id),
              member_level |-> r.level, resolved |-> TRUE,
              fresh |-> r.fresh, cache |-> r.cache]

(* ---------------------------------------------------------------------- *)
(* Utility functions of pie.acl.                                           *)
(* ---------------------------------------------------------------------- *)
\* Mutant of get_true_ACLevel: the default is looked up by command only.
get_true_ACLevel_AnyGuild(guild_id, command) ==
    IF \E d \in defaults : d.command = command
    THEN (CHOOSE d \in defaults : d.command = command).level
    ELSE get_hardcoded_ACLevel(command)

get_true_ACLevel(guild_id, command) ==
    IF ACDefault_get(guild_id, command) # {}
    THEN Row(ACDefault_get(guild_id, command)).level
    ELSE get_hardcoded_ACLevel(command)

\* Mutant of CanInvoke: a command without a level is passed to acl2_function.
CanInvoke_NoLevelCheck(uo, co, ro, member_level, guild_id, author_id, channel_id, command) ==
    IF guild_id = None THEN "None"
    ELSE IF Decide(uo, co, ro, get_true_ACLevel(guild_id, command), member_level,
                   author_id, command, guild_id, channel_id) = Allow
         THEN "True"
         ELSE "False"

\* Mutant of CanInvoke: a command without a level is checked as one that
\* requires EVERYONE.
CanInvoke_NoLevelAsEveryone(uo, co, ro, member_level, guild_id, author_id, channel_id, command) ==
    IF guild_id = None THEN "None"
    ELSE IF Decide(uo, co, ro,
                   IF get_true_ACLevel(guild_id, command) = None THEN EVERYONE
                   ELSE get_true_ACLevel(guild_id, command),
                   member_level, author_id, command, guild_id, channel_id) = Allow
         THEN "True"
         ELSE "False"

\* can_invoke_command on the overwrite tables uo, co, ro, with the level
\* member_level the resolver returns: "None", "True" or "False".
CanInvoke(uo, co, ro, member_level, guild_id, author_id, channel_id, command) ==
    IF guild_id = None THEN "None"
    ELSE IF get_true_ACLevel(guild_id, command) = None THEN "False"
    ELSE IF Decide(uo, co, ro, get_true_ACLevel(guild_id, command), member_level,
                   author_id, command, guild_id, channel_id) = Allow
         THEN "True"
         ELSE "False"

can_invoke_command(guild_id, author_id, channel_id, command) ==
    CanInvoke(user_ow, channel_ow, role_ow,
              IF guild_id = None THEN None
              ELSE map_member_to_ACLevel(guild_id, author_id).level,
              guild_id, author_id, channel_id, command)

(* ---------------------------------------------------------------------- *)
(* The state machine.                                                      *)
(* ---------------------------------------------------------------------- *)
\* The invocation contexts: a direct message, or a channel of a guild.
IsContext(guild_id, channel_id) ==
    \/ guild_id = None /\ channel_id = None
    \/ guild_id \in Guilds /\ channel_id \in GuildChannels(guild_id)

Contexts ==
    {x \in (Guilds \cup {None}) \X {101, 102, 201, None} : IsContext(x[1], x[2])}

\* member.roles of every member when the bot starts.
InitRoles ==
    [g \in Guilds |-> [u \in Users |->
        IF g = 1 THEN (IF u = 1 THEN <<11>> ELSE IF u = 2 THEN <<12>> ELSE <<11, 12>>)
        ELSE <<21>>]]

\* No function of pie.utils.text is being called.
NoCall == [fn |-> "none"]

NoResult == [done |-> FALSE, pages |-> <<>>]

Init ==
    /\ mappings = {}
    /\ defaults = {}
    /\ user_ow = {}
    /\ channel_ow = {}
    /\ role_ow = {}
    /\ roles = InitRoles
    /\ cache = [u \in Users |-> NoEntry]
    /\ pending = {}
    /\ call = NoCall
    /\ result = NoResult

\* predicate() of the acl2 decorator: the dispatcher checks a command by
\* calling acl2_function with the level of the command's decorator.
Acl2Predicate(invoker_id, command, guild_id, channel_id) ==
    /\ get_hardcoded_ACLevel(command) # None
    /\ IsContext(guild_id, channel_id)
    /\ cache' = acl2_function(get_hardcoded_ACLevel(command), invoker_id, command,
                              guild_id, channel_id).cache
    /\ UNCHANGED <<stores, roles, aside>>

\* An entry d seconds later; an entry that reached expire is never
\* returned again and is dropped.
Aged(entry, d) ==
    IF entry.level = None \/ entry.age + d >= expire
    THEN NoEntry
    ELSE [entry EXCEPT !.age = entry.age + d]

\* The lru storage holds a bounded number of entries: resolutions of other
\* members can push an entry out before it expires.
Evict(member_id) ==
    /\ cache[member_id].level # None
    /\ cache' = [cache EXCEPT ![member_id] = NoEntry]
    /\ UNCHANGED <<stores, roles, aside>>

\* The same check made while the lru storage is full: the entry stored for
\* the invoker pushes out the least recently used entry, which is any other
\* member's once enough members outside Users were resolved after it.
Acl2PredicateFull(invoker_id, command, guild_id, channel_id, victim_id) ==
    /\ get_hardcoded_ACLevel(command) # None
    /\ IsContext(guild_id, channel_id)
    /\ acl2_function(get_hardcoded_ACLevel(command), invoker_id, command,
                     guild_id, channel_id).fresh
    /\ victim_id # invoker_id
    /\ cache[victim_id].level # None
    /\ cache' = [acl2_function(get_hardcoded_ACLevel(command), invoker_id, command,
                               guild_id, channel_id).cache
                    EXCEPT ![victim_id] = NoEntry]
    /\ UNCHANGED <<stores, roles, aside>>

\* A call of can_invoke_command for author_id: acl2_function runs when the
\* context is a guild and the command has a level.
InvokeCheck(author_id, command, guild_id, channel_id) ==
    /\ IsContext(guild_id, channel_id)
    /\ cache' =
          IF guild_id = None \/ get_true_ACLevel(guild_id, command) = None
          THEN cache
          ELSE acl2_function(get_true_ACLevel(guild_id, command), author_id,
                             command, guild_id, channel_id).cache
    /\ UNCHANGED <<stores, roles, aside>>

\* d seconds pass.
Tick(d) ==
    /\ cache' = [u \in Users |-> Aged(cache[u], d)]
    /\ UNCHANGED <<stores, roles, aside>>

\* The platform changes the roles of a member.
MemberUpdate(guild_id, member_id, rs) ==
    /\ roles[guild_id][member_id] # rs
    /\ roles' = [roles EXCEPT ![guild_id][member_id] = rs]
    /\ UNCHANGED <<stores, cache, aside>>

\* The rows of the five tables.
Rows ==
    Cardinality(mappings) + Cardinality(defaults) + Cardinality(user_ow)
        + Cardinality(channel_ow) + Cardinality(role_ow)

(* ---------------------------------------------------------------------- *)
(* The commands of modules/base/acl/module.py.  Each is guild-only and     *)
(* runs behind its own @check.acl2(GUILD_OWNER) decorator; the action is   *)
(* the decorator's check followed by the handler.  reply is the message    *)
(* the handler answers with.                                               *)
(* ---------------------------------------------------------------------- *)
Dispatch(author_id, name, guild_id, channel_id) ==
    acl2_function(GUILD_OWNER, author_id, name, guild_id, channel_id)

\* Mutant of acl_mapping_add_reply: a level equal to the author's passes.
acl_mapping_add_reply_EqualPasses(d, guild_id, role_id, level) ==
    IF d.out # Allow THEN "CheckFailure"
    ELSE IF level = None THEN "Invalid level."
    ELSE IF level \in {BOT_OWNER, GUILD_OWNER} THEN "You can't assign OWNER levels."
    ELSE IF level > d.member_level THEN "Your ACLevel has to be higher."
    ELSE IF ACLevelMappping_get(guild_id, role_id) # {}
         THEN "That role is already mapped to some level."
    ELSE "Role will be mapped."

\* Mutant of acl_mapping_add_reply: a role that is already mapped is
\* mapped again.
acl_mapping_add_reply_NoDuplicateCheck(d, guild_id, role_id, level) ==
    IF d.out # Allow THEN "CheckFailure"
    ELSE IF level = None THEN "Invalid level."
    ELSE IF level \in {BOT_OWNER, GUILD_OWNER} THEN "You can't assign OWNER levels."
    ELSE IF level >= d.member_level THEN "Your ACLevel has to be higher."
    ELSE "Role will be mapped."

acl_mapping_add_reply(d, guild_id, role_id, level) ==
    IF d.out # Allow THEN "CheckFailure"
    ELSE IF level = None THEN "Invalid level."
    ELSE IF level \in {BOT_OWNER, GUILD_OWNER} THEN "You can't assign OWNER levels."
    ELSE IF level >= d.member_level THEN "Your ACLevel has to be higher."
    ELSE IF ACLevelMappping_get(guild_id, role_id) # {}
         THEN "That role is already mapped to some level."
    ELSE "Role will be mapped."

acl_mapping_add_body(d, author_id, guild_id, channel_id, role_id, level) ==
    LET reply == acl_mapping_add_reply(d, guild_id, role_id, level)
    IN  /\ reply = "Role will be mapped." => Rows < MaxRows
        /\ mappings' =
              IF reply = "Role will be mapped."
              THEN mappings \cup
                   {[guild_id |-> guild_id, role_id |-> role_id, level |-> level]}
              ELSE mappings
        /\ cache' = d.cache
        /\ UNCHANGED <<defaults, user_ow, channel_ow, role_ow, roles>>

\* The command: the check of its decorator, then the handler.
acl_mapping_add(author_id, guild_id, channel_id, role_id, level) ==
    /\ acl_mapping_add_body(Dispatch(author_id, "acl mapping add", guild_id, channel_id),
           author_id, guild_id, channel_id, role_id, level)
    /\ UNCHANGED aside

acl_mapping_remove_reply(d, guild_id, role_id) ==
    IF d.out # Allow THEN "CheckFailure"
    ELSE IF ACLevelMappping_get(guild_id, role_id) = {}
         THEN "That role is not mapped to any level."
    ELSE IF Row(ACLevelMappping_get(guild_id, role_id)).level >= d.member_level
         THEN "Your ACLevel has to be higher."
    ELSE "Role mapping was sucessfully removed."

acl_mapping_remove_body(d, author_id, guild_id, channel_id, role_id) ==
    LET reply == acl_mapping_remove_reply(d, guild_id, role_id)
    IN  /\ mappings' =
              IF reply = "Role mapping was sucessfully removed."
              THEN mappings \ ACLevelMappping_get(guild_id, role_id)
              ELSE mappings
        /\ cache' = d.cache
        /\ UNCHANGED <<defaults, user_ow, channel_ow, role_ow, roles>>

\* The command: the check of its decorator, then the handler.
acl_mapping_remove(author_id, guild_id, channel_id, role_id) ==
    /\ acl_mapping_remove_body(Dispatch(author_id, "acl mapping remove", guild_id, channel_id),
           author_id, guild_id, channel_id, role_id)
    /\ UNCHANGED aside

\* The replies the command-altering handlers share.
NoPermission == "You don't have permission to run this command."

UnknownCommand == "I don't know this command."

\* Mutant of acl_default_add_reply: the name UNKNOWN is a valid level.
acl_default_add_reply_UnknownValid(d, author_id, guild_id, channel_id, command, level) ==
    IF d.out # Allow THEN "CheckFailure"
    ELSE IF level = None THEN "Invalid level."
    ELSE IF command \notin Commands THEN UnknownCommand
    ELSE IF get_true_ACLevel(guild_id, command) = None
         THEN "This command can't be controlled by ACL."
    ELSE IF CanInvoke(user_ow, channel_ow, role_ow, d.member_level, guild_id,
                      author_id, channel_id, command) # "True"
         THEN NoPermission
    ELSE IF get_true_ACLevel(guild_id, command) > d.member_level
         THEN "Command's ACLevel is higher than your current ACLevel."
    ELSE IF ACDefault_get(guild_id, command) # {}
         THEN "Custom default already exists."
    ELSE "Custom default set."

acl_default_add_reply(d, author_id, guild_id, channel_id, command, level) ==
    IF d.out # Allow THEN "CheckFailure"
    ELSE IF level = None \/ level = UNKNOWN THEN "Invalid level."
    ELSE IF command \notin Commands THEN UnknownCommand
    ELSE IF get_true_ACLevel(guild_id, command) = None
         THEN "This command can't be controlled by ACL."
    ELSE IF CanInvoke(user_ow, channel_ow, role_ow, d.member_level, guild_id,
                      author_id, channel_id, command) # "True"
         THEN NoPermission
    ELSE IF get_true_ACLevel(guild_id, command) > d.member_level
         THEN "Command's ACLevel is higher than your current ACLevel."
    ELSE IF ACDefault_get(guild_id, command) # {}
         THEN "Custom default already exists."
    ELSE "Custom default set."

acl_default_add_body(d, author_id, guild_id, channel_id, command, level) ==
    LET reply == acl_default_add_reply(d, author_id, guild_id, channel_id,
                                       command, level)
    IN  /\ reply = "Custom default set." => Rows < MaxRows
        /\ defaults' =
              IF reply = "Custom default set."
              THEN defaults \cup
                   {[guild_id |-> guild_id, command |-> command, level |-> level]}
              ELSE defaults
        /\ cache' = d.cache
        /\ UNCHANGED <<mappings, user_ow, channel_ow, role_ow, roles>>

\* The command: the check of its decorator, then the handler.
acl_default_add(author_id, guild_id, channel_id, command, level) ==
    /\ acl_default_add_body(Dispatch(author_id, "acl default add", guild_id, channel_id),
           author_id, guild_id, channel_id, command, level)
    /\ UNCHANGED aside

acl_default_remove_reply(d, author_id, guild_id, channel_id, command) ==
    IF d.out # Allow THEN "CheckFailure"
    ELSE IF command \notin Commands THEN UnknownCommand
    ELSE IF CanInvoke(user_ow, channel_ow, role_ow, d.member_level, guild_id,
                      author_id, channel_id, command) # "True"
         THEN NoPermission
    ELSE IF ACDefault_get(guild_id, command) = {}
         THEN "Command does not have custom default."
    ELSE "Custom default removed."

acl_default_remove_body(d, author_id, guild_id, channel_id, command) ==
    LET reply == acl_default_remove_reply(d, author_id, guild_id, channel_id,
                                          command)
    IN  /\ defaults' =
              IF reply = "Custom default removed."
              THEN defaults \ ACDefault_get(guild_id, command)
              ELSE defaults
        /\ cache' = d.cache
        /\ UNCHANGED <<mappings, user_ow, channel_ow, role_ow, roles>>

\* The command: the check of its decorator, then the handler.
acl_default_remove(author_id, guild_id, channel_id, command) ==
    /\ acl_default_remove_body(Dispatch(author_id, "acl default remove", guild_id, channel_id),
           author_id, guild_id, channel_id, command)
    /\ UNCHANGED aside

\* Mutant of acl_overwrite_role_add_reply: can_invoke_command is not asked.
acl_overwrite_role_add_reply_NoCheck(d, author_id, guild_id, channel_id, command, role_id) ==
    IF d.out # Allow THEN "CheckFailure"
    ELSE IF command \notin Commands THEN UnknownCommand
    ELSE IF RoleOverwrite_get(role_ow, guild_id, role_id, command) # {}
         THEN "Overwrite already exists."
    ELSE "Overwrite sucessfully created."

acl_overwrite_role_add_reply(d, author_id, guild_id, channel_id, command, role_id) ==
    IF d.out # Allow THEN "CheckFailure"
    ELSE IF command \notin Commands THEN UnknownCommand
    ELSE IF CanInvoke(user_ow, channel_ow, role_ow, d.member_level, guild_id,
                      author_id, channel_id, command) # "True"
         THEN NoPermission
    ELSE IF RoleOverwrite_get(role_ow, guild_id, role_id, command) # {}
         THEN "Overwrite already exists."
    ELSE "Overwrite sucessfully created."

acl_overwrite_role_add_body(d, author_id, guild_id, channel_id, command, role_id, allow) ==
    LET reply == acl_overwrite_role_add_reply(d, author_id, guild_id, channel_id,
                                              command, role_id)
    IN  /\ reply = "Overwrite sucessfully created." =>
              Rows < MaxRows
        /\ role_ow' =
              IF reply = "Overwrite sucessfully created."
              THEN role_ow \cup {[guild_id |-> guild_id, id |-> role_id,
                                 command |-> command, allow |-> allow]}
              ELSE role_ow
        /\ cache' = d.cache
        /\ UNCHANGED <<mappings, defaults, user_ow, channel_ow, roles>>

\* The command: the check of its decorator, then the handler.
acl_overwrite_role_add(author_id, guild_id, channel_id, command, role_id, allow) ==
    /\ acl_overwrite_role_add_body(Dispatch(author_id, "acl overwrite role add", guild_id, channel_id),
           author_id, guild_id, channel_id, command, role_id, allow)
    /\ UNCHANGED aside

\* RoleOverwrite.remove() runs first; can_invoke_command is asked after it.
acl_overwrite_role_remove_reply(d, author_id, guild_id, channel_id, command, role_id) ==
    IF d.out # Allow THEN "CheckFailure"
    ELSE IF RoleOverwrite_get(role_ow, guild_id, role_id, command) = {}
         THEN "Overwrite does not exist."
    ELSE IF CanInvoke(user_ow, channel_ow,
                      role_ow \ RoleOverwrite_get(role_ow, guild_id, role_id, command), d.member_level, guild_id,
                      author_id, channel_id, command) # "True"
         THEN NoPermission
    ELSE "Overwrite sucessfully removed."

acl_overwrite_role_remove_body(d, author_id, guild_id, channel_id, command, role_id) ==
    LET reply == acl_overwrite_role_remove_reply(d, author_id, guild_id,
                                                 channel_id, command, role_id)
    IN  /\ role_ow' =
              IF reply \in {NoPermission, "Overwrite sucessfully removed."}
              THEN role_ow \ RoleOverwrite_get(role_ow, guild_id, role_id, command)
              ELSE role_ow
        /\ cache' = d.cache
        /\ UNCHANGED <<mappings, defaults, user_ow, channel_ow, roles>>

\* The command: the check of its decorator, then the handler.
acl_overwrite_role_remove(author_id, guild_id, channel_id, command, role_id) ==
    /\ acl_overwrite_role_remove_body(Dispatch(author_id, "acl overwrite role remove", guild_id, channel_id),
           author_id, guild_id, channel_id, command, role_id)
    /\ UNCHANGED aside

\* Mutant of acl_overwrite_user_add_reply: can_invoke_command is not asked.
acl_overwrite_user_add_reply_NoCheck(d, author_id, guild_id, channel_id, command, user_id) ==
    IF d.out # Allow THEN "CheckFailure"
    ELSE IF command \notin Commands THEN UnknownCommand
    ELSE IF UserOverwrite_get(user_ow, guild_id, user_id, command) # {}
         THEN "Overwrite already exists."
    ELSE "Overwrite sucessfully created."

acl_overwrite_user_add_reply(d, author_id, guild_id, channel_id, command, user_id) ==
    IF d.out # Allow THEN "CheckFailure"
    ELSE IF command \notin Commands THEN UnknownCommand
    ELSE IF CanInvoke(user_ow, channel_ow, role_ow, d.member_level, guild_id,
                      author_id, channel_id, command) # "True"
         THEN NoPermission
    ELSE IF UserOverwrite_get(user_ow, guild_id, user_id, command) # {}
         THEN "Overwrite already exists."
    ELSE "Overwrite sucessfully created."

acl_overwrite_user_add_body(d, author_id, guild_id, channel_id, command, user_id, allow) ==
    LET reply == acl_overwrite_user_add_reply(d, author_id, guild_id, channel_id,
                                              command, user_id)
    IN  /\ reply = "Overwrite sucessfully created." =>
              Rows < MaxRows
        /\ user_ow' =
              IF reply = "Overwrite sucessfully created."
              THEN user_ow \cup {[guild_id |-> guild_id, id |-> user_id,
                                 command |-> command, allow |-> allow]}
              ELSE user_ow
        /\ cache' = d.cache
        /\ UNCHANGED <<mappings, defaults, channel_ow, role_ow, roles>>

\* The command: the check of its decorator, then the handler.
acl_overwrite_user_add(author_id, guild_id, channel_id, command, user_id, allow) ==
    /\ acl_overwrite_user_add_body(Dispatch(author_id, "acl overwrite user add", guild_id, channel_id),
           author_id, guild_id, channel_id, command, user_id, allow)
    /\ UNCHANGED aside

\* UserOverwrite.remove() runs first; can_invoke_command is asked after it.
acl_overwrite_user_remove_reply(d, author_id, guild_id, channel_id, command, user_id) ==
    IF d.out # Allow THEN "CheckFailure"
    ELSE IF UserOverwrite_get(user_ow, guild_id, user_id, command) = {}
         THEN "Overwrite does not exist."
    ELSE IF CanInvoke(user_ow \ UserOverwrite_get(user_ow, guild_id, user_id, command),
                      channel_ow, role_ow, d.member_level, guild_id,
                      author_id, channel_id, command) # "True"
         THEN NoPermission
    ELSE "Overwrite sucessfully removed."

acl_overwrite_user_remove_body(d, author_id, guild_id, channel_id, command, user_id) ==
    LET reply == acl_overwrite_user_remove_reply(d, author_id, guild_id,
                                                 channel_id, command, user_id)
    IN  /\ user_ow' =
              IF reply \in {NoPermission, "Overwrite sucessfully removed."}
              THEN user_ow \ UserOverwrite_get(user_ow, guild_id, user_id, command)
              ELSE user_ow
        /\ cache' = d.cache
        /\ UNCHANGED <<mappings, defaults, channel_ow, role_ow, roles>>

\* The command: the check of its decorator, then the handler.
acl_overwrite_user_remove(author_id, guild_id, channel_id, command, user_id) ==
    /\ acl_overwrite_user_remove_body(Dispatch(author_id, "acl overwrite user remove", guild_id, channel_id),
           author_id, guild_id, channel_id, command, user_id)
    /\ UNCHANGED aside

acl_overwrite_channel_add_reply(d, author_id, guild_id, channel_id, command, target_id) ==
    IF d.out # Allow THEN "CheckFailure"
    ELSE IF command \notin Commands THEN UnknownCommand
    ELSE IF CanInvoke(user_ow, channel_ow, role_ow, d.member_level, guild_id,
                      author_id, channel_id, command) # "True"
         THEN NoPermission
    ELSE IF ChannelOverwrite_get(channel_ow, guild_id, target_id, command) # {}
         THEN "Overwrite already exists."
    ELSE "Overwrite sucessfully created."

acl_overwrite_channel_add_body(d, author_id, guild_id, channel_id, command, target_id, allow) ==
    LET reply == acl_overwrite_channel_add_reply(d, author_id, guild_id, channel_id,
                                              command, target_id)
    IN  /\ reply = "Overwrite sucessfully created." =>
              Rows < MaxRows
        /\ channel_ow' =
              IF reply = "Overwrite sucessfully created."
              THEN channel_ow \cup {[guild_id |-> guild_id, id |-> target_id,
                                 command |-> command, allow |-> allow]}
              ELSE channel_ow
        /\ cache' = d.cache
        /\ UNCHANGED <<mappings, defaults, user_ow, role_ow, roles>>

\* The command: the check of its decorator, then the handler.
acl_overwrite_channel_add(author_id, guild_id, channel_id, command, target_id, allow) ==
    /\ acl_overwrite_channel_add_body(Dispatch(author_id, "acl overwrite channel add", guild_id, channel_id),
           author_id, guild_id, channel_id, command, target_id, allow)
    /\ UNCHANGED aside

\* ChannelOverwrite.remove() runs first; can_invoke_command is asked after it.
acl_overwrite_channel_remove_reply(d, author_id, guild_id, channel_id, command, target_id) ==
    IF d.out # Allow THEN "CheckFailure"
    ELSE IF ChannelOverwrite_get(channel_ow, guild_id, target_id, command) = {}
         THEN "Overwrite does not exist."
    ELSE IF CanInvoke(user_ow,
                      channel_ow \ ChannelOverwrite_get(channel_ow, guild_id, target_id, command),
                      role_ow, d.member_level, guild_id,
                      author_id, channel_id, command) # "True"
         THEN NoPermission
    ELSE "Overwrite sucessfully removed."

acl_overwrite_channel_remove_body(d, author_id, guild_id, channel_id, command, target_id) ==
    LET reply == acl_overwrite_channel_remove_reply(d, author_id, guild_id,
                                                 channel_id, command, target_id)
    IN  /\ channel_ow' =
              IF reply \in {NoPermission, "Overwrite sucessfully removed."}
              THEN channel_ow \ ChannelOverwrite_get(channel_ow, guild_id, target_id, command)
              ELSE channel_ow
        /\ cache' = d.cache
        /\ UNCHANGED <<mappings, defaults, user_ow, role_ow, roles>>

\* The command: the check of its decorator, then the handler.
acl_overwrite_channel_remove(author_id, guild_id, channel_id, command, target_id) ==
    /\ acl_overwrite_channel_remove_body(Dispatch(author_id, "acl overwrite channel remove", guild_id, channel_id),
           author_id, guild_id, channel_id, command, target_id)
    /\ UNCHANGED aside

(* ---------------------------------------------------------------------- *)
(* The specifications.  The arguments of the commands are drawn from the   *)
(* sets below.                                                             *)
(* ---------------------------------------------------------------------- *)
\* The members who type administrative commands, and the guild channel
\* they type them in.
Authors == {1, 2}

AdminContexts == {<<1, 101>>}

\* The level argument: a member of ACLevel, or a name that is not one (None).
MappingLevelArgs == {MEMBER, MOD, None}

DefaultLevelArgs == {EVERYONE, MOD, UNKNOWN}

\* The command argument: a command of the bot, or a name that is not one.
DefaultCommandArgs == {"purge", "help", "nope"}

OverwriteCommandArgs == {"purge", "help"}

\* The members and the channels overwrites are made for.
OverwriteUsers == {3}

OverwriteChannels == {101}

\* The commands and the places the members invoke them in.
CheckCommands == {"ping"}

CheckContexts == {<<1, 101>>, <<2, 201>>, <<None, None>>}

RolesOf(g) == {GuildRoles(g)[i] : i \in 1..Len(GuildRoles(g))}

\* The members whose roles the platform changes, and the role lists a
\* member of a guild can have (sub-lists of the guild's roles).
Updated == {3}

RoleLists(g) == IF g = 1 THEN {<<>>, <<11>>, <<12>>, <<11, 12>>} ELSE {<<>>, <<21>>}

\* The guilds whose commands are dispatched under the finer clock.
ClockGuilds == {1}

ClockContexts == {x \in CheckContexts : x[1] \in ClockGuilds \cup {None}}

Check(X) ==
    \E u \in Users, c \in CheckCommands, x \in X : Acl2Predicate(u, c, x[1], x[2])

Mapping ==
    \/ \E u \in Authors, x \in AdminContexts, l \in MappingLevelArgs :
          \E r \in RolesOf(x[1]) : acl_mapping_add(u, x[1], x[2], r, l)
    \/ \E u \in Authors, x \in AdminContexts :
          \E r \in RolesOf(x[1]) : acl_mapping_remove(u, x[1], x[2], r)

Default ==
    \/ \E u \in Authors, x \in AdminContexts, c \in DefaultCommandArgs :
          \E l \in DefaultLevelArgs : acl_default_add(u, x[1], x[2], c, l)
    \/ \E u \in Authors, x \in AdminContexts, c \in DefaultCommandArgs :
          acl_default_remove(u, x[1], x[2], c)

Overwrite ==
    \/ \E u \in Authors, x \in AdminContexts, c \in OverwriteCommandArgs :
          \E r \in RolesOf(x[1]), a \in BOOLEAN :
             acl_overwrite_role_add(u, x[1], x[2], c, r, a)
    \/ \E u \in Authors, x \in AdminContexts, c \in OverwriteCommandArgs :
          \E r \in RolesOf(x[1]) : acl_overwrite_role_remove(u, x[1], x[2], c, r)
    \/ \E u \in Authors, x \in AdminContexts, c \in OverwriteCommandArgs :
          \E t \in OverwriteUsers, a \in BOOLEAN :
             acl_overwrite_user_add(u, x[1], x[2], c, t, a)
    \/ \E u \in Authors, x \in AdminContexts, c \in OverwriteCommandArgs :
          \E t \in OverwriteUsers : acl_overwrite_user_remove(u, x[1], x[2], c, t)
    \/ \E u \in Authors, x \in AdminContexts, c \in OverwriteCommandArgs :
          \E t \in OverwriteChannels, a \in BOOLEAN :
             acl_overwrite_channel_add(u, x[1], x[2], c, t, a)
    \/ \E u \in Authors, x \in AdminContexts, c \in OverwriteCommandArgs :
          \E t \in OverwriteChannels :
             acl_overwrite_channel_remove(u, x[1], x[2], c, t)

\* The bot with its administrative commands; the clock advances by the
\* lifetime of a cache entry.
Next ==
    \/ Check(CheckContexts)
    \/ Tick(expire)
    \/ Mapping
    \/ Default
    \/ Overwrite

Spec == Init /\ [][Next]_vars

\* The resolver under a finer clock, with the role mappings and the
\* members' roles of one guild changing.
NextClock ==
    \/ Check(ClockContexts)
    \/ \E u \in Users, c \in CheckCommands, x \in ClockContexts :
          \E v \in Users : Acl2PredicateFull(u, c, x[1], x[2], v)
    \/ \E u \in Users, c \in OverwriteCommandArgs, x \in ClockContexts :
          InvokeCheck(u, c, x[1], x[2])
    \/ Tick(TickStep)
    \/ Mapping
    \/ \E u \in Users : Evict(u)
    \/ \E g \in ClockGuilds, u \in Updated :
          \E rs \in RoleLists(g) : MemberUpdate(g, u, rs)

SpecClock == Init /\ [][NextClock]_vars

\* The administration of levels: role mappings and command defaults, with
\* every kind of level argument a member can type, and the members' commands.
LevelsMappingArgs == {MEMBER, GUILD_OWNER, UNKNOWN, None}

LevelsDefaultArgs == {EVERYONE, GUILD_OWNER, BOT_OWNER, UNKNOWN, None}

LevelsCommandArgs == {"purge", "shutdown", "help", "nope"}

MappingLevels ==
    \/ \E u \in Authors, x \in AdminContexts, l \in LevelsMappingArgs :
          \E r \in RolesOf(x[1]) : acl_mapping_add(u, x[1], x[2], r, l)
    \/ \E u \in Authors, x \in AdminContexts :
          \E r \in RolesOf(x[1]) : acl_mapping_remove(u, x[1], x[2], r)

DefaultLevels ==
    \/ \E u \in Authors, x \in AdminContexts, c \in LevelsCommandArgs :
          \E l \in LevelsDefaultArgs : acl_default_add(u, x[1], x[2], c, l)
    \/ \E u \in Authors, x \in AdminContexts, c \in LevelsCommandArgs :
          acl_default_remove(u, x[1], x[2], c)

NextLevels ==
    \/ Check(ClockContexts)
    \/ Tick(expire)
    \/ MappingLevels
    \/ DefaultLevels

SpecLevels == Init /\ [][NextLevels]_vars

\* The administrative commands issued by members who are not bot owners
\* only, on a command of the bot owners and on an administrative command.
MemberAuthors == Users \ bot_owner_ids

MemberCommandArgs == {"shutdown", "acl mapping add", "acl mapping remove"}

MemberLevelArgs == {EVERYONE, MEMBER}

MemberDefaultArgs == {EVERYONE}

MemberOverwriteArgs == {"shutdown", "acl mapping add"}

MappingMembers ==
    \/ \E u \in MemberAuthors, x \in AdminContexts, l \in MemberLevelArgs :
          \E r \in RolesOf(x[1]) : acl_mapping_add(u, x[1], x[2], r, l)
    \/ \E u \in MemberAuthors, x \in AdminContexts :
          \E r \in RolesOf(x[1]) : acl_mapping_remove(u, x[1], x[2], r)

DefaultMembers ==
    \/ \E u \in MemberAuthors, x \in AdminContexts, c \in MemberCommandArgs :
          \E l \in MemberDefaultArgs : acl_default_add(u, x[1], x[2], c, l)
    \/ \E u \in MemberAuthors, x \in AdminContexts, c \in MemberCommandArgs :
          acl_default_remove(u, x[1], x[2], c)

OverwriteMembers ==
    \/ \E u \in MemberAuthors, x \in AdminContexts, c \in MemberOverwriteArgs :
          \E r \in RolesOf(x[1]), a \in BOOLEAN :
             acl_overwrite_role_add(u, x[1], x[2], c, r, a)
    \/ \E u \in MemberAuthors, x \in AdminContexts, c \in MemberOverwriteArgs :
          \E r \in RolesOf(x[1]) : acl_overwrite_role_remove(u, x[1], x[2], c, r)
    \/ \E u \in MemberAuthors, x \in AdminContexts, c \in MemberOverwriteArgs :
          \E t \in OverwriteUsers, a \in BOOLEAN :
             acl_overwrite_user_add(u, x[1], x[2], c, t, a)
    \/ \E u \in MemberAuthors, x \in AdminContexts, c \in MemberOverwriteArgs :
          \E t \in OverwriteUsers : acl_overwrite_user_remove(u, x[1], x[2], c, t)
    \/ \E u \in MemberAuthors, x \in AdminContexts, c \in MemberOverwriteArgs :
          \E t \in OverwriteChannels, a \in BOOLEAN :
             acl_overwrite_channel_add(u, x[1], x[2], c, t, a)
    \/ \E u \in MemberAuthors, x \in AdminContexts, c \in MemberOverwriteArgs :
          \E t \in OverwriteChannels :
             acl_overwrite_channel_remove(u, x[1], x[2], c, t)

NextMembers ==
    \/ Check(CheckContexts)
    \/ Tick(expire)
    \/ MappingMembers
    \/ DefaultMembers
    \/ OverwriteMembers

SpecMembers == Init /\ [][NextMembers]_vars

(* ---------------------------------------------------------------------- *)
(* The commands as coroutines.  The framework awaits between the check of  *)
(* a command's decorator and the call of its handler (argument            *)
(* conversion, hooks), so an invocation that passed the check can wait in  *)
(* pending while others run.  A handler has no await between the first     *)
(* test of its body and its write: its awaits are the replies before a     *)
(* return and the reply and the log after the write.  acl2_function and    *)
(* map_member_to_ACLevel are plain functions.                              *)
(* ---------------------------------------------------------------------- *)

\* Bound of the model: the invocations suspended at one time.
MaxPending == 2

\* The command argument of a command that has none.
NoArg == ""

\* An invocation: the command's name and its arguments (NoArg, None or
\* FALSE where the command has none).
Invocation(name, author_id, command, target, level, allow) ==
    [name |-> name, author_id |-> author_id, guild_id |-> 1, channel_id |-> 101,
     command |-> command, target |-> target, level |-> level, allow |-> allow]

AsyncCalls ==
    {Invocation("acl mapping add", 2, NoArg, 11, l, FALSE) : l \in {MEMBER, MOD}}
    \cup {Invocation("acl mapping remove", 2, NoArg, 11, None, FALSE),
          Invocation("acl default add", 2, "purge", None, EVERYONE, FALSE),
          Invocation("acl default remove", 2, "purge", None, None, FALSE),
          Invocation("acl overwrite role add", 2, "purge", 11, None, TRUE),
          Invocation("acl overwrite role remove", 2, "purge", 11, None, FALSE),
          Invocation("acl overwrite user add", 2, "purge", 2, None, FALSE),
          Invocation("acl overwrite user remove", 2, "purge", 2, None, FALSE),
          Invocation("acl overwrite channel add", 2, "purge", 101, None, TRUE),
          Invocation("acl overwrite channel remove", 2, "purge", 101, None, FALSE)}

\* The message the handler of p answers with when its body runs now, d
\* being the result of the resolver's calls.
HandlerReply(p, d) ==
    CASE p.name = "acl mapping add" ->
            acl_mapping_add_reply(d, p.guild_id, p.target, p.level)
      [] p.name = "acl mapping remove" ->
            acl_mapping_remove_reply(d, p.guild_id, p.target)
      [] p.name = "acl default add" ->
            acl_default_add_reply(d, p.author_id, p.guild_id, p.channel_id,
                                  p.command, p.level)
      [] p.name = "acl default remove" ->
            acl_default_remove_reply(d, p.author_id, p.guild_id, p.channel_id,
                                     p.command)
      [] p.name = "acl overwrite role add" ->
            acl_overwrite_role_add_reply(d, p.author_id, p.guild_id, p.channel_id,
                                         p.command, p.target)
      [] p.name = "acl overwrite role remove" ->
            acl_overwrite_role_remove_reply(d, p.author_id, p.guild_id,
                                            p.channel_id, p.command, p.target)
      [] p.name = "acl overwrite user add" ->
            acl_overwrite_user_add_reply(d, p.author_id, p.guild_id, p.channel_id,
                                         p.command, p.target)
      [] p.name = "acl overwrite user remove" ->
            acl_overwrite_user_remove_reply(d, p.author_id, p.guild_id,
                                            p.channel_id, p.command, p.target)
      [] p.name = "acl overwrite channel add" ->
            acl_overwrite_channel_add_reply(d, p.author_id, p.guild_id,
                                            p.channel_id, p.command, p.target)
      [] OTHER ->
            acl_overwrite_channel_remove_reply(d, p.author_id, p.guild_id,
                                               p.channel_id, p.command, p.target)

\* The body of the handler of p.
HandlerBody(p, d) ==
    CASE p.name = "acl mapping add" ->
            acl_mapping_add_body(d, p.author_id, p.guild_id, p.channel_id,
                                 p.target, p.level)
      [] p.name = "acl mapping remove" ->
            acl_mapping_remove_body(d, p.author_id, p.guild_id, p.channel_id,
                                    p.target)
      [] p.name = "acl default add" ->
            acl_default_add_body(d, p.author_id, p.guild_id, p.channel_id,
                                 p.command, p.level)
      [] p.name = "acl default remove" ->
            acl_default_remove_body(d, p.author_id, p.guild_id, p.channel_id,
                                    p.command)
      [] p.name = "acl overwrite role add" ->
            acl_overwrite_role_add_body(d, p.author_id, p.guild_id, p.channel_id,
                                        p.command, p.target, p.allow)
      [] p.name = "acl overwrite role remove" ->
            acl_overwrite_role_remove_body(d, p.author_id, p.guild_id,
                                           p.channel_id, p.command, p.target)
      [] p.name = "acl overwrite user add" ->
            acl_overwrite_user_add_body(d, p.author_id, p.guild_id, p.channel_id,
                                        p.command, p.target, p.allow)
      [] p.name = "acl overwrite user remove" ->
            acl_overwrite_user_remove_body(d, p.author_id, p.guild_id,
                                           p.channel_id, p.command, p.target)
      [] p.name = "acl overwrite channel add" ->
            acl_overwrite_channel_add_body(d, p.author_id, p.guild_id,
                                           p.channel_id, p.command, p.target, p.allow)
      [] OTHER ->
            acl_overwrite_channel_remove_body(d, p.author_id, p.guild_id,
                                              p.channel_id, p.command, p.target)

\* The replies under which the handler named name has written to its table.
WritingReplies(name) ==
    CASE name = "acl mapping add" -> {"Role will be mapped."}
      [] name = "acl mapping remove" -> {"Role mapping was sucessfully removed."}
      [] name = "acl default add" -> {"Custom default set."}
      [] name = "acl default remove" -> {"Custom default removed."}
      [] name \in {"acl overwrite role add", "acl overwrite user add",
                   "acl overwrite channel add"} -> {"Overwrite sucessfully created."}
      [] OTHER -> {NoPermission, "Overwrite sucessfully removed."}

\* The check of the decorator of c passes, and the framework suspends the
\* invocation before the handler is called.  valid and member_level record
\* whether the tests of the body would have let it write, and the level
\* resolved, at this time.
Invoke(c) ==
    LET d == Dispatch(c.author_id, c.name, c.guild_id, c.channel_id)
        p == [call |-> c, valid |-> HandlerReply(c, d) \in WritingReplies(c.name),
              member_level |-> d.member_level]
    IN  /\ Cardinality(pending) < MaxPending
        /\ d.out = Allow
        /\ p \notin pending
        /\ pending' = pending \cup {p}
        /\ cache' = d.cache
        /\ UNCHANGED <<stores, roles, call, result>>

\* Mutant of RunContext: the body works with the level the decorator's
\* check resolved before the suspension.
RunContext_AtDispatch(p) ==
    [Dispatch(p.call.author_id, p.call.name, p.call.guild_id, p.call.channel_id)
        EXCEPT !.out = Allow, !.member_level = p.member_level]

\* What the body of a resumed handler gets from map_member_to_ACLevel and
\* can_invoke_command: the level resolved when it runs.
RunContext(p) ==
    [Dispatch(p.call.author_id, p.call.name, p.call.guild_id, p.call.channel_id)
        EXCEPT !.out = Allow]

\* The handler of a suspended invocation runs, from the first test of its
\* body to its write.
Run(p) ==
    /\ p \in pending
    /\ HandlerBody(p.call, RunContext(p))
    /\ pending' = pending \ {p}
    /\ UNCHANGED <<call, result>>

\* The member whose decisions are evaluated between the handlers' steps,
\* in the member's own guild and in the other one.
AsyncMembers == {2}

NextAsync ==
    \/ \E u \in AsyncMembers, x \in CheckContexts :
          Acl2Predicate(u, "purge", x[1], x[2])
    \/ Tick(expire)
    \/ \E c \in AsyncCalls : Invoke(c)
    \/ \E p \in pending : Run(p)

SpecAsync == Init /\ [][NextAsync]_vars

(* ---------------------------------------------------------------------- *)
(* pie/utils/text.py.  A string is the sequence of its characters, a list  *)
(* the sequence of its items.                                              *)
(* ---------------------------------------------------------------------- *)
NL == "\n"

SP == " "

Min(a, b) == IF a <= b THEN a ELSE b

\* string[i:j] with 0 <= i <= j: an index past the end stops at the end.
Slice(string, i, j) == SubSeq(string, i + 1, Min(j, Len(string)))

\* "".join(parts)
RECURSIVE Concat(_)
Concat(parts) == IF parts = <<>> THEN <<>> ELSE Head(parts) \o Concat(Tail(parts))

\* range(0, n, step) for step >= 1: 0, step, 2 * step, ... below n.
Range(n, step) == [k \in 1..((n + step - 1) \div step) |-> (k - 1) * step]

\* Mutant of split: the slices start at 0, 1, 2, ... (range without the step).
split_StepOne(string, limit) ==
    [k \in 1..Len(string) |-> Slice(string, k - 1, limit + k - 1)]

\* list(string[0 + i : limit + i] for i in range(0, len(string), limit))
split(string, limit) ==
    [k \in DOMAIN Range(Len(string), limit) |->
        Slice(string, 0 + Range(Len(string), limit)[k],
              limit + Range(Len(string), limit)[k])]

\* string.lstrip(ch), string.rstrip(ch) and string.strip(ch) for a set of
\* characters ch.
RECURSIVE lstrip(_, _)
lstrip(string, ch) ==
    IF string # <<>> /\ Head(string) \in ch THEN lstrip(Tail(string), ch) ELSE string

RECURSIVE rstrip(_, _)
rstrip(string, ch) ==
    IF string # <<>> /\ string[Len(string)] \in ch
    THEN rstrip(SubSeq(string, 1, Len(string) - 1), ch)
    ELSE string

strip(string, ch) == rstrip(lstrip(string, ch), ch)

\* The loop of split_lines over the lines left, with the pages appended so
\* far and the page being built; after the loop the last page is appended.
RECURSIVE split_lines_loop(_, _, _, _)
split_lines_loop(lines, limit, pages, page) ==
    IF lines = <<>> THEN Append(pages, strip(page, {NL}))
    ELSE IF Len(page) >= limit
         THEN split_lines_loop(Tail(lines), limit,
                               Append(pages, strip(page, {NL})),
                               Head(lines) \o <<NL>>)
         ELSE split_lines_loop(Tail(lines), limit, pages,
                               page \o Head(lines) \o <<NL>>)

split_lines(lines, limit) == split_lines_loop(lines, limit, <<>>, <<>>)

\* str.ljust(width): the string padded with spaces on the right.
RECURSIVE Spaces(_)
Spaces(n) == IF n <= 0 THEN <<>> ELSE <<SP>> \o Spaces(n - 1)

ljust(string, width) == string \o Spaces(width - Len(string))

\* The characters str.rstrip() removes, among those of the model.
Whitespace == {SP, NL}

\* The escape character \u001b.
ESC == "ESC"

\* P, H, A, R of create_table: the page prefix and the colour sequences,
\* empty unless rich.
P(rich) == IF rich THEN <<"a", "n", "s", "i", NL>> ELSE <<>>

H(rich) == IF rich THEN <<ESC, "[", "1", ";", "3", "4", "m">> ELSE <<>>

A(rich) == IF rich THEN <<ESC, "[", "3", "6", "m">> ELSE <<>>

R(rich) == IF rich THEN <<ESC, "[", "0", "m">> ELSE <<>>

\* matrix is the list create_table builds first: the header's values, then
\* for every item the str() of its attributes ("" for a missing one).
Max(S) == CHOOSE x \in S : \A y \in S : y <= x

column_widths(matrix) ==
    [c \in 1..Len(matrix[1]) |-> Max({Len(matrix[r][c]) : r \in 1..Len(matrix)})]

\* The text of line i (counted from 0, the header) of the table.
table_line(matrix, i, rich) ==
    LET start == IF i = 0 THEN H(rich) ELSE IF i % 2 = 0 THEN A(rich) ELSE <<>>
        cells == Concat([c \in 1..Len(matrix[1]) |->
                            ljust(matrix[i + 1][c], column_widths(matrix)[c] + 2)])
    IN  rstrip(start \o cells, Whitespace)
            \o (IF i % 2 = 0 THEN R(rich) \o <<NL>> ELSE <<NL>>)

table_lines(matrix, rich) ==
    [k \in 1..Len(matrix) |-> table_line(matrix, k - 1, rich)]

\* Mutant of PageFull: a line that fills the page exactly starts a new one.
PageFull_AtLimit(page, line, limit) == Len(page) + Len(line) >= limit

\* if len(page) + len(line) > limit
PageFull(page, line, limit) == Len(page) + Len(line) > limit

\* The loop that adds the lines to the pages; after it the page being
\* built is appended.
RECURSIVE create_table_loop(_, _, _, _, _)
create_table_loop(lines, limit, rich, pages, page) ==
    IF lines = <<>> THEN Append(pages, page)
    ELSE IF PageFull(page, Head(lines), limit)
         THEN create_table_loop(Tail(lines), limit, rich, Append(pages, page),
                                P(rich) \o Head(lines))
         ELSE create_table_loop(Tail(lines), limit, rich, pages,
                                page \o Head(lines))

create_table(matrix, limit, rich) ==
    create_table_loop(table_lines(matrix, rich), limit, rich, <<>>, P(rich))

(* ---------------------------------------------------------------------- *)
(* The functions of pie/utils/text.py, each called once with arguments     *)
(* drawn from the sets below.                                              *)
(* ---------------------------------------------------------------------- *)
\* Bounds of the model: the longest string split() is given, the most
\* lines split_lines() is given, the most items create_table() is given.
MaxLen == 4

MaxLines == 3

MaxItems == 2

SeqsUpTo(S, n) == UNION {[1..k -> S] : k \in 0..n}

Chars == {"a", "b"}

SplitLimits == 1..3

\* The lines given to split_lines: empty lines and lines of text.
LineArgs == {<<>>, <<"a">>, <<"a", "b">>}

SplitLinesLimits == 1..4

\* The header's values and the values of the items' attributes.
TableHeaders == {<<(<<"i", "d">>)>>, <<(<<"n", "a", "m", "e">>), <<"i", "d">>>>}

CellArgs == {<<>>, <<"x">>, <<"x", "y", "z">>}

TableLimits == {2, 5, 8, 20}

SplitCalls ==
    {[fn |-> "split", string |-> x[1], limit |-> x[2]] :
        x \in SeqsUpTo(Chars, MaxLen) \X SplitLimits}

SplitLinesCalls ==
    {[fn |-> "split_lines", lines |-> x[1], limit |-> x[2]] :
        x \in SeqsUpTo(LineArgs, MaxLines) \X SplitLinesLimits}

Matrices ==
    UNION {{<<h>> \o items : items \in SeqsUpTo([1..Len(h) -> CellArgs], MaxItems)} :
              h \in TableHeaders}

CreateTableCalls ==
    {[fn |-> "create_table", matrix |-> x[1], limit |-> x[2], rich |-> x[3]] :
        x \in Matrices \X TableLimits \X BOOLEAN}

Returned(pages) == [done |-> TRUE, pages |-> pages]

InitText ==
    /\ mappings = {}
    /\ defaults = {}
    /\ user_ow = {}
    /\ channel_ow = {}
    /\ role_ow = {}
    /\ roles = InitRoles
    /\ cache = [u \in Users |-> NoEntry]
    /\ pending = {}
    /\ call \in SplitCalls \cup SplitLinesCalls \cup CreateTableCalls
    /\ result = NoResult

Split ==
    /\ call.fn = "split"
    /\ result = NoResult
    /\ result' = Returned(split(call.string, call.limit))
    /\ UNCHANGED <<stores, roles, cache, pending, call>>

SplitLines ==
    /\ call.fn = "split_lines"
    /\ result = NoResult
    /\ result' = Returned(split_lines(call.lines, call.limit))
    /\ UNCHANGED <<stores, roles, cache, pending, call>>

CreateTable ==
    /\ call.fn = "create_table"
    /\ result = NoResult
    /\ result' = Returned(create_table(call.matrix, call.limit, call.rich))
    /\ UNCHANGED <<stores, roles, cache, pending, call>>

NextText ==
    \/ Split
    \/ SplitLines
    \/ CreateTable

SpecText == InitText /\ [][NextText]_vars

(* ---------------------------------------------------------------------- *)
(* Properties of acl2_function.  A call is taken over every level, actor,  *)
(* command and context; Resolved is the level the resolver returns to it.  *)
(* ---------------------------------------------------------------------- *)
Resolved(g, u) == map_member_to_ACLevel(g, u).level

HasUserOverwrite(g, u, c) ==
    \E o \in user_ow : o.guild_id = g /\ o.id = u /\ o.command = c

HasChannelOverwrite(g, ch, c) ==
    \E o \in channel_ow : o.guild_id = g /\ o.id = ch /\ o.command = c

HasRoleOverwrite(g, r, c) ==
    \E o \in role_ow : o.guild_id = g /\ o.id = r /\ o.command = c

HeldRoles(g, u) == {roles[g][u][i] : i \in 1..Len(roles[g][u])}

C2_DirectMessageAllowed ==
    \A u \in Users, c \in Commands, l \in ACLevel :
        LET r == acl2_function(l, u, c, None, None)
        IN  /\ r.out = Allow
            /\ ~r.resolved
            /\ r.member_level = None
            /\ r.cache = cache

\* C2 witness: a member who is denied a command in a guild by a user
\* overwrite, and was never resolved, is allowed it in a direct message.
C2_Witness ==
    \E u \in Users, c \in Commands :
        /\ cache[u] = NoEntry
        /\ \E o \in user_ow :
              o.guild_id = 1 /\ o.id = u /\ o.command = c /\ ~o.allow
        /\ acl2_function(get_hardcoded_ACLevel(c), u, c, 1, 101).out.kind
              = "NegativeUserOverwrite"
        /\ acl2_function(get_hardcoded_ACLevel(c), u, c, None, None).out = Allow

\* C3: for an actor in a guild who is not resolved to BOT_OWNER, a user
\* overwrite for (guild, actor, command) decides: True when it allows,
\* NegativeUserOverwrite when it does not, whatever the channel and role
\* overwrites, the command default, the required level and the actor's level.
C3_UserOverwriteDecides ==
    \A g \in Guilds, u \in Users :
        Resolved(g, u) # BOT_OWNER =>
            \A o \in user_ow :
                (o.guild_id = g /\ o.id = u) =>
                    \A ch \in GuildChannels(g), l \in ACLevel :
                        acl2_function(l, u, o.command, g, ch).out =
                            IF o.allow THEN Allow
                            ELSE Outcome("NegativeUserOverwrite", None, None,
                                         None, None)

\* C3 witness: a resolved actor with a user overwrite that denies and a
\* role overwrite that allows the same command is denied by the user overwrite.
C3_Witness ==
    \E u \in Users, c \in Commands :
        /\ cache[u].level \notin {None, BOT_OWNER}
        /\ \E o \in user_ow :
              o.guild_id = 1 /\ o.id = u /\ o.command = c /\ ~o.allow
        /\ \E o \in role_ow :
              o.guild_id = 1 /\ o.id \in HeldRoles(1, u) /\ o.command = c /\ o.allow
        /\ acl2_function(get_hardcoded_ACLevel(c), u, c, 1, 101).out.kind
              = "NegativeUserOverwrite"

\* C4: for an actor not resolved to BOT_OWNER and without a user overwrite
\* for the command, a channel overwrite for (guild, channel, command)
\* decides: True when it allows, NegativeChannelOverwrite with that channel
\* when it does not, whatever the role overwrites and the levels.
C4_ChannelOverwriteDecides ==
    \A g \in Guilds, u \in Users :
        Resolved(g, u) # BOT_OWNER =>
            \A o \in channel_ow :
                (o.guild_id = g /\ o.id \in GuildChannels(g)
                    /\ ~HasUserOverwrite(g, u, o.command)) =>
                    \A l \in ACLevel :
                        acl2_function(l, u, o.command, g, o.id).out =
                            IF o.allow THEN Allow
                            ELSE Outcome("NegativeChannelOverwrite", o.id, None,
                                         None, None)

\* C4 witness: an actor resolved to EVERYONE is allowed a command whose
\* required level is MOD, in a channel whose overwrite allows it.
C4_Witness ==
    \E u \in Users, c \in Commands :
        /\ cache[u].level = EVERYONE
        /\ get_true_ACLevel(1, c) = MOD
        /\ \E o \in channel_ow :
              o.guild_id = 1 /\ o.id = 101 /\ o.command = c /\ o.allow
        /\ acl2_function(get_hardcoded_ACLevel(c), u, c, 1, 101).out = Allow
        /\ acl2_function(get_hardcoded_ACLevel(c), u, c, 1, 102).out.kind
              = "InsufficientACLevel"

\* C5: for an actor not resolved to BOT_OWNER, without a user overwrite and
\* without a channel overwrite for the command, the first role of the
\* actor's role sequence (front to back) that has a role overwrite for the
\* command decides: True when it allows, NegativeRoleOverwrite with that
\* role when it does not; the overwrites of later roles are ignored.
C5_FirstRoleOverwriteDecides ==
    \A g \in Guilds, u \in Users :
        Resolved(g, u) # BOT_OWNER =>
            \A c \in Commands, ch \in GuildChannels(g) :
                (~HasUserOverwrite(g, u, c) /\ ~HasChannelOverwrite(g, ch, c)) =>
                    \A i \in 1..Len(roles[g][u]) :
                        (/\ HasRoleOverwrite(g, roles[g][u][i], c)
                         /\ \A j \in 1..(i - 1) :
                               ~HasRoleOverwrite(g, roles[g][u][j], c)) =>
                            \A o \in role_ow, l \in ACLevel :
                                (o.guild_id = g /\ o.id = roles[g][u][i]
                                    /\ o.command = c) =>
                                    acl2_function(l, u, c, g, ch).out =
                                        IF o.allow THEN Allow
                                        ELSE Outcome("NegativeRoleOverwrite", None,
                                                     roles[g][u][i], None, None)

\* C5 witness: a resolved actor holds two roles whose overwrites for a
\* command conflict, the first denying; the actor is denied with that role.
C5_Witness ==
    \E u \in Users, c \in Commands :
        /\ cache[u].level \notin {None, BOT_OWNER}
        /\ Len(roles[1][u]) = 2
        /\ \E o \in role_ow :
              o.guild_id = 1 /\ o.id = roles[1][u][1] /\ o.command = c /\ ~o.allow
        /\ \E o \in role_ow :
              o.guild_id = 1 /\ o.id = roles[1][u][2] /\ o.command = c /\ o.allow
        /\ acl2_function(get_hardcoded_ACLevel(c), u, c, 1, 101).out =
              Outcome("NegativeRoleOverwrite", None, roles[1][u][1], None, None)

\* The required level a call compares with: the level of the command
\* default stored for (guild, command) if there is one, else the level passed.
Effective(l, g, c) ==
    IF \E d \in defaults : d.guild_id = g /\ d.command = c
    THEN (CHOOSE d \in defaults : d.guild_id = g /\ d.command = c).level
    ELSE l

\* No user, channel or role overwrite matches the call.
NoOverwrite(g, u, ch, c) ==
    /\ ~HasUserOverwrite(g, u, c)
    /\ ~HasChannelOverwrite(g, ch, c)
    /\ \A r \in HeldRoles(g, u) : ~HasRoleOverwrite(g, r, c)

C7_DefaultReplacesLevel ==
    \A g \in Guilds, u \in Users, c \in Commands :
      \A ch \in GuildChannels(g) :
        (Resolved(g, u) # BOT_OWNER /\ NoOverwrite(g, u, ch, c)) =>
            \A l \in ACLevel :
                LET allowed == acl2_function(l, u, c, g, ch).out = Allow
                IN  /\ \A d \in defaults :
                          (d.guild_id = g /\ d.command = c) =>
                              (allowed <=> Resolved(g, u) >= d.level)
                    /\ (\A d \in defaults : d.guild_id # g \/ d.command # c) =>
                          (allowed <=> Resolved(g, u) >= l)

\* C7 witness: an actor resolved to EVERYONE is allowed a MOD command in
\* the guild whose default lowers it to EVERYONE, is refused it in the
\* other guild, and is refused another command in the same guild.
C7_Witness ==
    \E u \in Users :
        /\ cache[u].level = EVERYONE
        /\ \E d \in defaults :
              d.guild_id = 1 /\ d.command = "purge" /\ d.level = EVERYONE
        /\ acl2_function(MOD, u, "purge", 1, 101).out = Allow
        /\ acl2_function(MOD, u, "purge", 2, 201).out.kind = "InsufficientACLevel"
        /\ acl2_function(MEMBER, u, "ping", 1, 101).out.kind = "InsufficientACLevel"

(* ---------------------------------------------------------------------- *)
(* Properties of the resolver.                                             *)
(* ---------------------------------------------------------------------- *)
Mapped(g, r) == \E m \in mappings : m.guild_id = g /\ m.role_id = r

\* C8: the body of map_member_to_ACLevel resolves by first match: a member
\* of bot_owner_ids is BOT_OWNER, also when guild owner or holding mapped
\* roles; otherwise the guild's owner is GUILD_OWNER, also when holding
\* mapped roles; otherwise the level is the level of a mapped role the
\* actor holds; otherwise, no held role being mapped in the guild, EVERYONE.
C8_ResolverPrecedence ==
    \A g \in Guilds, u \in Users :
        /\ u \in bot_owner_ids => ComputeLevel(g, u) = BOT_OWNER
        /\ (u \notin bot_owner_ids /\ u = guild_owner_id(g)) =>
              ComputeLevel(g, u) = GUILD_OWNER
        /\ (u \notin bot_owner_ids /\ u # guild_owner_id(g)) =>
              /\ (\E r \in HeldRoles(g, u) : Mapped(g, r)) =>
                    \E m \in mappings :
                        /\ m.guild_id = g /\ m.role_id \in HeldRoles(g, u)
                        /\ ComputeLevel(g, u) = m.level
              /\ (\A r \in HeldRoles(g, u) : ~Mapped(g, r)) =>
                    ComputeLevel(g, u) = EVERYONE

\* C8 witness: the bot owner and the guild owner both hold a mapped role of
\* guild 1 and were resolved, just now, to BOT_OWNER and to GUILD_OWNER.
C8_Witness ==
    /\ \E r \in HeldRoles(1, 1) : Mapped(1, r)
    /\ \E r \in HeldRoles(1, 2) : Mapped(1, r)
    /\ cache[1] = [level |-> BOT_OWNER, age |-> 0]
    /\ cache[2] = [level |-> GUILD_OWNER, age |-> 0]
    /\ ComputeLevel(1, 1) = BOT_OWNER
    /\ ComputeLevel(1, 2) = GUILD_OWNER
    /\ ComputeLevel(2, 1) = BOT_OWNER

\* C9: for an actor who is neither bot owner nor guild owner, the level
\* computed is the one mapped to the last mapped role of the actor's role
\* sequence (the highest-priority one), whatever levels earlier roles map to.
C9_HighestMappedRoleWins ==
    \A g \in Guilds, u \in Users :
        (u \notin bot_owner_ids /\ u # guild_owner_id(g)) =>
            \A i \in 1..Len(roles[g][u]) :
                (/\ Mapped(g, roles[g][u][i])
                 /\ \A j \in (i + 1)..Len(roles[g][u]) : ~Mapped(g, roles[g][u][j])) =>
                    \A m \in mappings :
                        (m.guild_id = g /\ m.role_id = roles[g][u][i]) =>
                            ComputeLevel(g, u) = m.level

\* C9 witness: the actor holds roles A below B, A mapped to MOD and B to
\* MEMBER, and was resolved, just now, to MEMBER.
C9_Witness ==
    \E u \in Users :
        /\ u \notin bot_owner_ids /\ u # guild_owner_id(1)
        /\ Len(roles[1][u]) = 2
        /\ [guild_id |-> 1, role_id |-> roles[1][u][1], level |-> MOD] \in mappings
        /\ [guild_id |-> 1, role_id |-> roles[1][u][2], level |-> MEMBER] \in mappings
        /\ ComputeLevel(1, u) = MEMBER
        /\ cache[u] = [level |-> MEMBER, age |-> 0]

\* The step is the passing of TickStep seconds.
IsTick == cache' = [u \in Users |-> Aged(cache[u], TickStep)]

\* C10 as claimed: two resolutions of an actor less than 10 seconds apart
\* return the same value, and a resolution 10 seconds or more after the
\* cached value was computed is recomputed from the current mappings.
\* Taken over a resolution that hits the cache and a resolution in the
\* same guild TickStep seconds after it.
C10_AsClaimed ==
    [][(IsTick /\ TickStep < expire) =>
         \A u \in Users, g \in ClockGuilds :
            /\ CacheHit(u) =>
                  map_member_to_ACLevel(g, u)'.level = cache[u].level
            /\ (CacheHit(u) /\ cache[u].age + TickStep >= expire) =>
                  /\ map_member_to_ACLevel(g, u)'.fresh
                  /\ map_member_to_ACLevel(g, u)'.level = ComputeLevel(g, u)'
      ]_vars

\* C10 amended: a cached level is created with age 0 from the mappings
\* current at that moment; no resolution or command changes a cached
\* level or its age, an entry can only be pushed out; a resolution less
\* than 10 seconds after the cached level was computed returns it as long
\* as the cache holds it, whatever the mappings and roles are then, and
\* one 10 seconds or more after it is recomputed from the mappings
\* current then.
C10_CacheLifetime ==
    [][\A u \in Users :
         /\ ~IsTick =>
               /\ cache[u].level # None => cache'[u] \in {cache[u], NoEntry}
               /\ (cache[u].level = None /\ cache'[u].level # None) =>
                     /\ cache'[u].age = 0
                     /\ \E g \in Guilds : cache'[u].level = ComputeLevel(g, u)
         /\ (IsTick /\ cache[u].level # None) =>
               \A g \in Guilds :
                  IF cache[u].age + TickStep < expire
                  THEN /\ ~map_member_to_ACLevel(g, u)'.fresh
                       /\ map_member_to_ACLevel(g, u)'.level = cache[u].level
                  ELSE /\ map_member_to_ACLevel(g, u)'.fresh
                       /\ map_member_to_ACLevel(g, u)'.level = ComputeLevel(g, u)'
      ]_vars

\* C10 witness: a level computed TickStep seconds ago is still returned
\* although the mappings and roles of now give the actor another level.
C10_Witness ==
    \E u \in Users :
        /\ cache[u].level # None
        /\ cache[u].age = TickStep
        /\ cache[u].age < expire
        /\ ComputeLevel(1, u) # cache[u].level
        /\ ComputeLevel(2, u) # cache[u].level
        /\ ~map_member_to_ACLevel(1, u).fresh
        /\ map_member_to_ACLevel(1, u).level = cache[u].level

(* ---------------------------------------------------------------------- *)
(* Properties of the administrative commands.                              *)
(* ---------------------------------------------------------------------- *)
\* C11: whatever 'acl mapping add' and 'acl mapping remove' commands were
\* issued, no stored role mapping has level UNKNOWN and the resolver
\* returns UNKNOWN for no member of any guild.
C11_NoUnknownLevel ==
    /\ \A m \in mappings : m.level # UNKNOWN
    /\ \A g \in Guilds, u \in Users : map_member_to_ACLevel(g, u).level # UNKNOWN

\* The reply of 'acl default add' typed by author_id in channel 101 of guild 1.
DefaultAddReply(author_id, command, level) ==
    acl_default_add_reply(Dispatch(author_id, "acl default add", 1, 101),
                          author_id, 1, 101, command, level)

\* C12: 'acl default add' with the level name UNKNOWN, or with a name that
\* is not a level (None), answers "Invalid level." and changes no table;
\* no stored command default ever has level UNKNOWN.
C12_InvalidDefaultLevelRejected ==
    [][/\ \A d \in defaults' : d.level # UNKNOWN
       /\ \A u \in Authors, x \in AdminContexts, c \in LevelsCommandArgs :
             \A l \in {UNKNOWN, None} :
                acl_default_add(u, x[1], x[2], c, l) =>
                   /\ UNCHANGED stores
                   /\ Dispatch(u, "acl default add", x[1], x[2]).out = Allow =>
                         acl_default_add_reply(
                             Dispatch(u, "acl default add", x[1], x[2]),
                             u, x[1], x[2], c, l) = "Invalid level."
      ]_vars

\* C12 witness: an author who was resolved and whose 'acl default add' of
\* a command would succeed with the level EVERYONE is answered "Invalid
\* level." for UNKNOWN and for a name that is not a level.
C12_Witness ==
    \E u \in Authors, c \in LevelsCommandArgs :
        /\ cache[u].level # None
        /\ DefaultAddReply(u, c, EVERYONE) = "Custom default set."
        /\ DefaultAddReply(u, c, UNKNOWN) = "Invalid level."
        /\ DefaultAddReply(u, c, None) = "Invalid level."

\* C13: whatever 'acl default add' and 'acl default remove' commands were
\* issued, no stored command default has level BOT_OWNER or GUILD_OWNER.
C13_NoOwnerLevelDefault ==
    \A d \in defaults : d.level \notin {BOT_OWNER, GUILD_OWNER}

\* C14: 'acl default add' creates a command default only when the author's
\* resolved level is strictly higher than the level requested and than the
\* command's effective level (default if stored, else hardcoded) before the
\* command; 'acl default remove' removes one only when the author's
\* resolved level is strictly higher than the command's effective level;
\* otherwise the command defaults are unchanged.
C14_DefaultGuard ==
    [][\A u \in Authors, x \in AdminContexts, c \in LevelsCommandArgs :
          /\ \A l \in LevelsDefaultArgs :
                (acl_default_add(u, x[1], x[2], c, l) /\ defaults' # defaults) =>
                   /\ Resolved(x[1], u) > l
                   /\ Resolved(x[1], u) > get_true_ACLevel(x[1], c)
          /\ (acl_default_remove(u, x[1], x[2], c) /\ defaults' # defaults) =>
                Resolved(x[1], u) > get_true_ACLevel(x[1], c)
      ]_vars

\* C15: 'acl overwrite role remove', 'acl overwrite user remove' and
\* 'acl overwrite channel remove' delete an overwrite only if the author is
\* permitted to invoke the command when the request is made; an author who
\* is not permitted leaves the overwrite in its table.
C15_RemoveNeedsPermission ==
    [][\A u \in Authors, x \in AdminContexts, c \in OverwriteCommandArgs :
          /\ \A r \in RolesOf(x[1]) :
                (acl_overwrite_role_remove(u, x[1], x[2], c, r)
                    /\ role_ow' # role_ow) =>
                   can_invoke_command(x[1], u, x[2], c) = "True"
          /\ \A t \in OverwriteUsers :
                (acl_overwrite_user_remove(u, x[1], x[2], c, t)
                    /\ user_ow' # user_ow) =>
                   can_invoke_command(x[1], u, x[2], c) = "True"
          /\ \A t \in OverwriteChannels :
                (acl_overwrite_channel_remove(u, x[1], x[2], c, t)
                    /\ channel_ow' # channel_ow) =>
                   can_invoke_command(x[1], u, x[2], c) = "True"
      ]_vars

\* C16: 'acl overwrite role add', 'acl overwrite user add', 'acl overwrite
\* channel add' and 'acl default add' change no table when can_invoke_command
\* does not return True for the author and the command in the state the
\* command is typed in: a step that changes a table is no such command of
\* an author for whom it returns False or None.
C16_AddNeedsPermission ==
    [][stores' # stores =>
         \A u \in Authors, x \in AdminContexts :
            /\ \A c \in OverwriteCommandArgs :
                  can_invoke_command(x[1], u, x[2], c) # "True" =>
                     /\ \A r \in RolesOf(x[1]), a \in BOOLEAN :
                           ~acl_overwrite_role_add(u, x[1], x[2], c, r, a)
                     /\ \A t \in OverwriteUsers, a \in BOOLEAN :
                           ~acl_overwrite_user_add(u, x[1], x[2], c, t, a)
                     /\ \A t \in OverwriteChannels, a \in BOOLEAN :
                           ~acl_overwrite_channel_add(u, x[1], x[2], c, t, a)
            /\ \A c \in DefaultCommandArgs :
                  can_invoke_command(x[1], u, x[2], c) # "True" =>
                     \A l \in DefaultLevelArgs :
                        ~acl_default_add(u, x[1], x[2], c, l)
      ]_vars

\* C16 witness: an author who passes the check of the administrative
\* commands is denied a command that takes part in ACL; their 'acl
\* overwrite role add' and 'acl default add' for it are answered with the
\* lack of permission, while another author's would succeed.
C16_Witness ==
    \E u \in Authors, v \in Authors, r \in RolesOf(1) :
        /\ cache[u].level # None
        /\ get_true_ACLevel(1, "purge") # None
        /\ can_invoke_command(1, u, 101, "purge") = "False"
        /\ acl_overwrite_role_add_reply(
              Dispatch(u, "acl overwrite role add", 1, 101),
              u, 1, 101, "purge", r) = NoPermission
        /\ DefaultAddReply(u, "purge", EVERYONE) = NoPermission
        /\ acl_overwrite_role_add_reply(
              Dispatch(v, "acl overwrite role add", 1, 101),
              v, 1, 101, "purge", r) = "Overwrite sucessfully created."

\* Every table holds at most one row per key.
UniqueKeys ==
    /\ \A m, n \in mappings :
          (m.guild_id = n.guild_id /\ m.role_id = n.role_id) => m = n
    /\ \A m, n \in defaults :
          (m.guild_id = n.guild_id /\ m.command = n.command) => m = n
    /\ \A t \in {user_ow, channel_ow, role_ow} :
          \A m, n \in t :
             (m.guild_id = n.guild_id /\ m.id = n.id /\ m.command = n.command)
                => m = n

\* C17: every table holds at most one row per key: (guild, role) for the
\* mappings, (guild, command) for the command defaults, (guild, id,
\* command) for each kind of overwrite; an add command for a key that is
\* already stored does not answer with success and changes no table: a
\* step that changes a table is no add for a stored key.
C17_OneEntryPerKey ==
    [][/\ UniqueKeys'
       /\ stores' # stores =>
            \A u \in Authors, x \in AdminContexts :
               /\ \A r \in RolesOf(x[1]), l \in MappingLevelArgs :
                     ACLevelMappping_get(x[1], r) # {} =>
                        ~acl_mapping_add(u, x[1], x[2], r, l)
               /\ \A c \in DefaultCommandArgs, l \in DefaultLevelArgs :
                     ACDefault_get(x[1], c) # {} =>
                        ~acl_default_add(u, x[1], x[2], c, l)
               /\ \A c \in OverwriteCommandArgs, a \in BOOLEAN :
                     /\ \A r \in RolesOf(x[1]) :
                           RoleOverwrite_get(role_ow, x[1], r, c) # {} =>
                              ~acl_overwrite_role_add(u, x[1], x[2], c, r, a)
                     /\ \A t \in OverwriteUsers :
                           UserOverwrite_get(user_ow, x[1], t, c) # {} =>
                              ~acl_overwrite_user_add(u, x[1], x[2], c, t, a)
                     /\ \A t \in OverwriteChannels :
                           ChannelOverwrite_get(channel_ow, x[1], t, c) # {} =>
                              ~acl_overwrite_channel_add(u, x[1], x[2], c, t, a)
      ]_vars

\* C17 witness: a role overwrite and a user overwrite for the same command
\* are stored side by side, and an author who is allowed the command is
\* answered that the role overwrite already exists when adding it again.
C17_Witness ==
    \E u \in Authors, c \in OverwriteCommandArgs :
        \E o \in role_ow, p \in user_ow :
            /\ o.guild_id = 1 /\ o.command = c
            /\ p.guild_id = 1 /\ p.command = c
            /\ cache[u].level # None
            /\ can_invoke_command(1, u, 101, c) = "True"
            /\ acl_overwrite_role_add_reply(
                  Dispatch(u, "acl overwrite role add", 1, 101),
                  u, 1, 101, c, o.id) = "Overwrite already exists."

(* ---------------------------------------------------------------------- *)
(* Properties of the utility functions.                                    *)
(* ---------------------------------------------------------------------- *)
\* What acl2_function answers for the command at its effective level.
Engine(g, u, ch, c) == acl2_function(get_true_ACLevel(g, c), u, c, g, ch).out

\* C18 as claimed: can_invoke_command returns None iff there is no guild;
\* in a guild it returns True exactly when acl2_function allows the actor
\* the command and False exactly when it raises a denial, for every actor
\* and every command.
C18_AsClaimed ==
    \A u \in Users, c \in Commands :
        /\ can_invoke_command(None, u, None, c) = "None"
        /\ \A g \in Guilds :
              \A ch \in GuildChannels(g) :
                 can_invoke_command(g, u, ch, c) =
                    IF Engine(g, u, ch, c) = Allow THEN "True" ELSE "False"

\* C18 amended: can_invoke_command returns None iff there is no guild; in
\* a guild, for a command that has an effective level, it returns True
\* exactly when acl2_function allows and False exactly when it raises a
\* denial, for every actor; for a command without an effective level it
\* returns False for every actor, bot owners included.
C18_CanInvoke ==
    \A u \in Users, c \in Commands :
        /\ can_invoke_command(None, u, None, c) = "None"
        /\ \A g \in Guilds :
              \A ch \in GuildChannels(g) :
                 can_invoke_command(g, u, ch, c) =
                    IF get_true_ACLevel(g, c) = None THEN "False"
                    ELSE IF Engine(g, u, ch, c) = Allow THEN "True"
                    ELSE "False"

\* C18 witness: the bot owner was resolved and is allowed a command that a
\* channel overwrite denies, the guild owner is refused it by that
\* overwrite, and the bot owner is refused a command without a level.
C18_Witness ==
    /\ cache[1].level = BOT_OWNER
    /\ cache[2].level = GUILD_OWNER
    /\ \E o \in channel_ow :
          o.guild_id = 1 /\ o.id = 101 /\ o.command = "purge" /\ ~o.allow
    /\ can_invoke_command(1, 1, 101, "purge") = "True"
    /\ can_invoke_command(1, 2, 101, "purge") = "False"
    /\ Engine(1, 2, 101, "purge").kind = "NegativeChannelOverwrite"
    /\ get_true_ACLevel(1, "help") = None
    /\ can_invoke_command(1, 1, 101, "help") = "False"

\* C19: get_true_ACLevel(guild, command) is the level of the command
\* default stored for (guild, command) when there is one, otherwise the
\* level of the command's decorator, which is None for a command without
\* one; a default stored for another guild is never returned.
C19_TrueLevel ==
    \A g \in Guilds, c \in Commands :
        /\ \A d \in defaults :
              (d.guild_id = g /\ d.command = c) => get_true_ACLevel(g, c) = d.level
        /\ (\A d \in defaults : d.guild_id # g \/ d.command # c) =>
              get_true_ACLevel(g, c) = get_hardcoded_ACLevel(c)
        /\ (get_hardcoded_ACLevel(c) = None
               /\ \A d \in defaults : d.guild_id # g \/ d.command # c) =>
              get_true_ACLevel(g, c) = None

\* C19 witness: a default stored in guild 1 lowers a command to EVERYONE
\* there, the other guild keeps the decorator's level, and a command
\* without a decorator has no level.
C19_Witness ==
    /\ [guild_id |-> 1, command |-> "purge", level |-> EVERYONE] \in defaults
    /\ get_true_ACLevel(1, "purge") = EVERYONE
    /\ get_true_ACLevel(2, "purge") = MOD
    /\ get_true_ACLevel(1, "ping") = MEMBER
    /\ get_true_ACLevel(1, "help") = None

\* C20: no command default and no overwrite is ever stored for a command
\* that does not take part in ACL (no decorator level, hence no effective
\* level): 'acl default add' and the three 'acl overwrite ... add' commands
\* create no entry for it, whoever types them.
C20_NoEntryWithoutLevel ==
    /\ \A d \in defaults : get_hardcoded_ACLevel(d.command) # None
    /\ \A t \in {user_ow, channel_ow, role_ow} :
          \A o \in t : get_hardcoded_ACLevel(o.command) # None
    /\ \A u \in Authors, x \in AdminContexts, c \in Commands :
          get_true_ACLevel(x[1], c) = None =>
             /\ \A l \in ACLevel :
                   acl_default_add_reply(
                       Dispatch(u, "acl default add", x[1], x[2]),
                       u, x[1], x[2], c, l) # "Custom default set."
             /\ \A r \in RolesOf(x[1]) :
                   acl_overwrite_role_add_reply(
                       Dispatch(u, "acl overwrite role add", x[1], x[2]),
                       u, x[1], x[2], c, r) # "Overwrite sucessfully created."
             /\ \A t \in Users :
                   acl_overwrite_user_add_reply(
                       Dispatch(u, "acl overwrite user add", x[1], x[2]),
                       u, x[1], x[2], c, t) # "Overwrite sucessfully created."
             /\ \A t \in GuildChannels(x[1]) :
                   acl_overwrite_channel_add_reply(
                       Dispatch(u, "acl overwrite channel add", x[1], x[2]),
                       u, x[1], x[2], c, t) # "Overwrite sucessfully created."

\* C20 witness: the bot owner was resolved, has stored an overwrite for a
\* command with a level, and is refused the command default and the
\* overwrite for a command without one.
C20_Witness ==
    /\ cache[1].level = BOT_OWNER
    /\ \E o \in role_ow : o.guild_id = 1 /\ o.command = "purge"
    /\ get_true_ACLevel(1, "help") = None
    /\ DefaultAddReply(1, "help", EVERYONE) = "This command can't be controlled by ACL."
    /\ \E r \in RolesOf(1) :
          /\ RoleOverwrite_get(role_ow, 1, r, "purge") = {}
          /\ acl_overwrite_role_add_reply(
                Dispatch(1, "acl overwrite role add", 1, 101),
                1, 1, 101, "purge", r) = "Overwrite sucessfully created."
          /\ acl_overwrite_role_add_reply(
                Dispatch(1, "acl overwrite role add", 1, 101),
                1, 1, 101, "help", r) = NoPermission

(* ---------------------------------------------------------------------- *)
(* Properties of pie/utils/text.py.                                        *)
(* ---------------------------------------------------------------------- *)
\* C24: split(string, limit) with limit >= 1 returns chunks whose
\* concatenation in order is the string; every chunk has at most limit
\* characters and every chunk but the last exactly limit; the empty string
\* gives no chunk.
C24_SplitChunks ==
    (call.fn = "split" /\ result.done) =>
        LET chunks == result.pages
        IN  /\ Concat(chunks) = call.string
            /\ \A k \in DOMAIN chunks : Len(chunks[k]) <= call.limit
            /\ \A k \in 1..(Len(chunks) - 1) : Len(chunks[k]) = call.limit
            /\ call.string = <<>> => chunks = <<>>

\* A string of two chunks was split, the last one shorter than limit.
C24_Witness ==
    /\ call.fn = "split"
    /\ result.done
    /\ Len(result.pages) = 2
    /\ Len(result.pages[1]) = call.limit
    /\ Len(result.pages[2]) < call.limit

\* "\n".join(lines)
RECURSIVE Join(_)
Join(lines) ==
    IF lines = <<>> THEN <<>>
    ELSE IF Len(lines) = 1 THEN lines[1]
    ELSE Head(lines) \o <<NL>> \o Join(Tail(lines))

\* The length of the page built from the lines of group, each followed by
\* its newline.
Built(group) == Len(Concat([k \in DOMAIN group |-> group[k] \o <<NL>>]))

\* The pages that keep every line: the lines left are put, in order, into
\* the group of the page being built, a new group being started before a
\* line exactly when the page built so far has reached limit; a page is the
\* lines of its group joined by single newlines.
RECURSIVE WholeLinePages(_, _, _, _)
WholeLinePages(lines, limit, pages, group) ==
    IF lines = <<>> THEN Append(pages, Join(group))
    ELSE IF Built(group) >= limit
         THEN WholeLinePages(Tail(lines), limit, Append(pages, Join(group)),
                             <<Head(lines)>>)
         ELSE WholeLinePages(Tail(lines), limit, pages, Append(group, Head(lines)))

\* C25: split_lines(lines, limit) never splits a line: every line is whole
\* in exactly one page, in the order given, the lines of a page joined by a
\* single newline, and a page is started before a line exactly when the
\* page built so far (trailing newlines included) has length >= limit.
C25_LinesKeptWhole ==
    (call.fn = "split_lines" /\ result.done) =>
        result.pages = WholeLinePages(call.lines, call.limit, <<>>, <<>>)

\* A page without the page prefix.
PageBody(page, rich) == SubSeq(page, Len(P(rich)) + 1, Len(page))

\* The characters of the first k pages, prefixes not counted.
BodyLength(pages, rich, k) ==
    Len(Concat([m \in 1..k |-> PageBody(pages[m], rich)]))

\* The numbers of leading lines that make up exactly total characters.
LinesOfLength(lines, total) ==
    {j \in 0..Len(lines) : Len(Concat(SubSeq(lines, 1, j))) = total}

\* The number of lines on the first k pages (when they end with a line).
Cut(lines, pages, rich, k) ==
    CHOOSE j \in LinesOfLength(lines, BodyLength(pages, rich, k)) : TRUE

\* The pages begin with the prefix, hold the lines in order and end with a
\* line each.
WholeRows(lines, pages, rich) ==
    /\ \A k \in DOMAIN pages : SubSeq(pages[k], 1, Len(P(rich))) = P(rich)
    /\ Concat([k \in DOMAIN pages |-> PageBody(pages[k], rich)]) = Concat(lines)
    /\ \A k \in DOMAIN pages :
          LinesOfLength(lines, BodyLength(pages, rich, k)) # {}

\* Line j is the first line after a page break: it begins page k + 1.
BreakBefore(lines, pages, rich, j) ==
    \E k \in 1..(Len(pages) - 1) :
       /\ Cut(lines, pages, rich, k) = j - 1
       /\ Cut(lines, pages, rich, k + 1) >= j

\* The page as it is when line j is about to be added: the prefix and the
\* lines before j that follow the last page break before an earlier line.
PageBefore(lines, pages, rich, j) ==
    LET first == Max({0} \cup {Cut(lines, pages, rich, k) : k \in
                        {k \in 1..(Len(pages) - 1) :
                            Cut(lines, pages, rich, k) < j - 1}})
    IN  P(rich) \o Concat(SubSeq(lines, first + 1, j - 1))

\* A page break is inserted before a line exactly when the page's length
\* plus the line's length exceeds limit.
BreakRule(lines, pages, rich, limit) ==
    \A j \in DOMAIN lines :
       BreakBefore(lines, pages, rich, j) <=>
          Len(PageBefore(lines, pages, rich, j)) + Len(lines[j]) > limit

\* C26 as claimed: the pages of create_table hold, in order, the header
\* line and one line per item, every line whole within one page, the header
\* on the first page, with a page break before a line exactly when the
\* page's length plus the line's length exceeds limit.
C26_AsClaimed ==
    (call.fn = "create_table" /\ result.done) =>
        LET lines == table_lines(call.matrix, call.rich)
            pages == result.pages
        IN  /\ Len(lines) = Len(call.matrix)
            /\ WholeRows(lines, pages, call.rich)
            /\ Cut(lines, pages, call.rich, 1) >= 1
            /\ BreakRule(lines, pages, call.rich, call.limit)

\* C26: as C26_AsClaimed, but the header is on the first page only when it
\* fits there: when the header line does not fit within limit after the
\* page prefix, the first page holds nothing but the prefix and the header
\* is on the second page.
C26_TablePages ==
    (call.fn = "create_table" /\ result.done) =>
        LET lines == table_lines(call.matrix, call.rich)
            pages == result.pages
        IN  /\ Len(lines) = Len(call.matrix)
            /\ WholeRows(lines, pages, call.rich)
            /\ \/ Cut(lines, pages, call.rich, 1) >= 1
               \/ /\ pages[1] = P(call.rich)
                  /\ Len(pages) >= 2
                  /\ Cut(lines, pages, call.rich, 2) >= 1
            /\ BreakRule(lines, pages, call.rich, call.limit)

\* A table of a header and two items was paginated into two pages, the
\* header and the first item on the first one.
C26_Witness ==
    /\ call.fn = "create_table"
    /\ result.done
    /\ Len(call.matrix) = 3
    /\ Len(result.pages) = 2
    /\ Cut(table_lines(call.matrix, call.rich), result.pages, call.rich, 1) = 2

(* ---------------------------------------------------------------------- *)
(* Properties of the decisions as a whole.                                 *)
(* ---------------------------------------------------------------------- *)
\* The step is an evaluation of acl2_function for u in a guild.
Evaluated(u) ==
    \E c \in CheckCommands, x \in CheckContexts :
       x[1] # None /\ Acl2Predicate(u, c, x[1], x[2])

\* An evaluation for u made after the step has the outcome of the same
\* evaluation made before it.
SameOutcome(u) ==
    \A g \in ClockGuilds, c \in CheckCommands, l \in ACLevel :
       \A ch \in GuildChannels(g) :
          acl2_function(l, u, c, g, ch).out' = acl2_function(l, u, c, g, ch).out

\* C21 as claimed: two evaluations of acl2_function with the same level,
\* actor, command, guild and channel, with no change of a table or of the
\* actor's roles between them, have the same outcome.  The first evaluation
\* is the step itself, or it is a cache hit, which leaves the state as it is.
C21_AsClaimed ==
    [][\A u \in Users :
          (stores' = stores /\ roles' = roles /\ (Evaluated(u) \/ CacheHit(u)))
              => SameOutcome(u)]_vars

\* C21: as C21_AsClaimed, when the level the cache holds for the actor at
\* the first evaluation is still held at the second.
C21_Deterministic ==
    [][\A u \in Users :
          (/\ stores' = stores
           /\ roles' = roles
           /\ \/ Evaluated(u)
              \/ CacheHit(u) /\ cache'[u].level = cache[u].level)
              => SameOutcome(u)]_vars

\* An actor's level is cached and seconds old, and a role mapping added
\* since gives the actor another level: evaluations repeated now agree with
\* each other and not with the tables.
C21_Witness ==
    \E u \in Users, g \in ClockGuilds :
       /\ CacheHit(u)
       /\ cache[u].age > 0
       /\ cache[u].level # ComputeLevel(g, u)


\* An evaluation for the actor u: the check of a command's acl2 decorator,
\* with the lru storage full or not, or a call of can_invoke_command.
EvaluationFor(u) ==
    \E c \in Commands, x \in CheckContexts :
       \/ Acl2Predicate(u, c, x[1], x[2])
       \/ \E v \in Users : Acl2PredicateFull(u, c, x[1], x[2], v)
       \/ InvokeCheck(u, c, x[1], x[2])

\* C22 as first stated: an evaluation leaves the five tables unchanged, and
\* of the cache it changes at most the entry of the evaluated actor.
C22_AsClaimed ==
    [][\A u \in Users :
          EvaluationFor(u) =>
             /\ stores' = stores
             /\ \A v \in Users \ {u} : cache'[v] = cache[v]]_vars

\* C22: an evaluation of acl2_function or can_invoke_command, whatever its
\* outcome, leaves the role mappings, the defaults and the three overwrite
\* tables unchanged; of the cache it may rewrite only the entry of the
\* evaluated actor, and another actor's entry is either kept as it is or
\* dropped by the size limit of the lru storage, never given another value.
C22_EvaluationFrame ==
    [][/\ \A u \in Users :
             EvaluationFor(u) =>
                /\ stores' = stores
                /\ roles' = roles
                /\ \A v \in Users \ {u} : cache'[v] \in {cache[v], NoEntry}
       /\ \A v \in Users :
             Evict(v) =>
                /\ stores' = stores
                /\ \A w \in Users \ {v} : cache'[w] = cache[w]]_vars

\* Rows are stored, one actor's level was resolved this second and the
\* entry of another actor, resolved earlier, is still held.
C22_Witness ==
    \E u \in Users :
     \E v \in Users \ {u} :
       /\ mappings # {}
       /\ cache[u].level # None
       /\ cache[u].age = 0
       /\ cache[v].level # None
       /\ cache[v].age > 0


(* ---------------------------------------------------------------------- *)
(* Properties of the resolved levels across guilds.                        *)
(* ---------------------------------------------------------------------- *)

\* The levels the body of map_member_to_ACLevel can compute for a member of
\* guild_id, whatever the role mappings of that guild are or were.
LevelsComputedIn(guild_id, member_id) ==
    IF member_id \in bot_owner_ids THEN {BOT_OWNER}
    ELSE IF member_id = guild_owner_id(guild_id) THEN {GUILD_OWNER}
    ELSE ACLevel \ {BOT_OWNER, GUILD_OWNER}

\* C27: the level acl2_function uses for an actor in a guild is one computed
\* from that guild's owner and that guild's role mappings, never a level
\* computed for the actor in another guild.
C27_LevelOfTheGuild ==
    \A g \in Guilds, u \in Users :
       map_member_to_ACLevel(g, u).level \in LevelsComputedIn(g, u)


\* Whatever was added and removed, no stored role mapping has an owner level.
NoOwnerLevelMapping ==
    \A m \in mappings : m.level \notin {BOT_OWNER, GUILD_OWNER}

\* C30: no role is mapped to BOT_OWNER or GUILD_OWNER, so that an actor is
\* resolved to BOT_OWNER only when it is in the bot's owner ids and to
\* GUILD_OWNER only when it is the owner of the guild it is resolved in.
C30_OwnerLevelsNotMapped ==
    /\ NoOwnerLevelMapping
    /\ \A g \in Guilds, u \in Users :
          LET level == map_member_to_ACLevel(g, u).level
          IN  /\ level = BOT_OWNER => u \in bot_owner_ids
              /\ level = GUILD_OWNER => u = guild_owner_id(g)


(* ---------------------------------------------------------------------- *)
(* Properties of the administrative commands of members.                   *)
(* ---------------------------------------------------------------------- *)
GuildContexts == {x \in CheckContexts : x[1] # None}

\* C28: from empty tables and with administrative commands issued by
\* members who are not bot owners only, acl2_function allows no member who
\* is not a bot owner, in any guild and channel, a command whose hardcoded
\* level is BOT_OWNER.
C28_BotOwnerCommandsKept ==
    \A u \in Users \ bot_owner_ids, c \in Commands, x \in GuildContexts :
       get_hardcoded_ACLevel(c) = BOT_OWNER =>
          acl2_function(BOT_OWNER, u, c, x[1], x[2]).out # Allow

\* Members have stored rows, and through them a member who is neither a
\* bot owner nor the guild's owner is allowed a command whose hardcoded
\* level is GUILD_OWNER: what the tables can grant for that command they
\* do not grant for a command of the bot owners.
C28_Witness ==
    /\ Rows > 0
    /\ \E u \in Users \ bot_owner_ids, x \in AdminContexts :
          /\ u # guild_owner_id(x[1])
          /\ acl2_function(GUILD_OWNER, u, "acl mapping add", x[1], x[2]).out = Allow
          /\ acl2_function(BOT_OWNER, u, "shutdown", x[1], x[2]).out # Allow


\* C29: a step of 'acl mapping add' or 'acl mapping remove' changes the
\* role mappings only when the level of the mapping is strictly lower than
\* the level map_member_to_ACLevel returns for the author at that moment;
\* with an equal or higher level the mappings stay as they are.
C29_StrictlyLowerLevel ==
    [][mappings' # mappings =>
          \E u \in Users, x \in AdminContexts :
             \E r \in RolesOf(x[1]) :
                LET m_level == map_member_to_ACLevel(x[1], u).level
                IN  \/ \E l \in MemberLevelArgs :
                          /\ acl_mapping_add(u, x[1], x[2], r, l)
                          /\ l < m_level
                    \/ /\ acl_mapping_remove(u, x[1], x[2], r)
                       /\ ACLevelMappping_get(x[1], r) # {}
                       /\ Row(ACLevelMappping_get(x[1], r)).level < m_level]_vars

\* A member who is not an owner passes the check of the decorator of
\* 'acl mapping remove', and a role is mapped to exactly the member's
\* level: the member's request to remove that mapping is refused.
EqualLevelRemoveRefused ==
    \E u \in MemberAuthors, x \in AdminContexts :
       LET d == Dispatch(u, "acl mapping remove", x[1], x[2])
       IN  /\ d.out = Allow
           /\ u # guild_owner_id(x[1])
           /\ \E m \in mappings :
                 /\ m.level = d.member_level
                 /\ acl_mapping_remove_reply(d, x[1], m.role_id)
                       = "Your ACLevel has to be higher."

\* A member who is not an owner passes the check of the decorator of
\* 'acl mapping add': the member's request to map a role to the member's
\* own level is refused, that role being unmapped.
C29_Witness ==
    \E u \in MemberAuthors, x \in AdminContexts :
       LET d == Dispatch(u, "acl mapping add", x[1], x[2])
       IN  /\ d.out = Allow
           /\ u # guild_owner_id(x[1])
           /\ Rows < MaxRows
           /\ \E r \in RolesOf(x[1]) :
                 /\ ACLevelMappping_get(x[1], r) = {}
                 /\ d.member_level \in MemberLevelArgs
                 /\ acl_mapping_add_reply(d, x[1], r, d.member_level)
                       = "Your ACLevel has to be higher."


(* ---------------------------------------------------------------------- *)
(* Properties of the interleaved handlers.                                 *)
(* ---------------------------------------------------------------------- *)

\* The rows by which a table differs after the step.
Changed(before, after) == Cardinality((before \ after) \cup (after \ before))

ChangedRows ==
    Changed(mappings, mappings') + Changed(defaults, defaults')
        + Changed(user_ow, user_ow') + Changed(channel_ow, channel_ow')
        + Changed(role_ow, role_ow')

\* The tests of the body of a suspended handler, made on the present
\* tables with the level the resolver returns now.
TestsNow(p) ==
    [Dispatch(p.call.author_id, p.call.name, p.call.guild_id, p.call.channel_id)
        EXCEPT !.out = Allow]

====
